---- MODULE Spec2Model ----
(***************************************************************************)
(* A model of tpath's path query builder (src/src/tpath/pquery/_pquery.py): *)
(* the PQuery builder calls, the generator PQuery._iter_files walking a     *)
(* directory tree with an explicit stack, and the terminal methods that     *)
(* drive it.                                                                *)
(*                                                                          *)
(* A path is the sequence of its components, as pathlib keeps it: TPath     *)
(* drops "." components, so the current directory is the empty sequence.    *)
(***************************************************************************)
EXTENDS Integers, Sequences, FiniteSets, TLC

\* ------------------------------------------------------------------ bounds
\* Builder calls (from_, where, recursive, distinct) made on one builder.
MaxCalls == 2
\* Largest limit handed to take().
MaxLimit == 2
\* Largest page_size handed to paginate().
MaxPage == 2
\* Largest offset, in either direction, handed to a calendar window.
MaxOffset == 2

\* The stat results a file goes through, and the reads made of one TPath.
MaxVersion == 3

MaxReads == 3

\* ------------------------------------------------------- the file system
\* The file system the queries run on, relative to the current directory:
\*   .            lists  x  d  e  o         (o: an empty directory)
\*   d            lists  s  a  u  b  l      (l: a symlink back to d)
\*   d/s          lists  c  t               d/s/t lists g     d/u lists f
\*   e            lists  h  v  w  k         e/v lists m  y
\* x is a regular file.  e/h has vanished since it was listed (stat raises
\* OSError), e/k cannot be listed (scandir raises OSError) and examining the
\* entry e/v/m raises OSError.  n does not exist.
NoPath == <<"?">>

DirPaths ==
    { <<>>, <<"d">>, <<"d", "s">>, <<"d", "s", "t">>, <<"d", "u">>,
      <<"e">>, <<"e", "v">>, <<"e", "k">>, <<"o">> }

FilePaths ==
    { <<"x">>, <<"d", "a">>, <<"d", "b">>, <<"d", "s", "c">>,
      <<"d", "s", "t", "g">>, <<"d", "u", "f">>,
      <<"e", "h">>, <<"e", "w">>, <<"e", "v", "m">>, <<"e", "v", "y">> }

LinkPaths == { <<"d", "l">> }

\* Entries whose stat() raises OSError (deleted after the listing).
Vanished == { <<"e", "h">> }
\* Directories os.scandir refuses to list (permission denied).
Unlistable == { <<"e", "k">> }
\* Entries whose DirEntry.is_file() raises OSError.
Unexaminable == { <<"e", "v", "m">> }

\* os.scandir(dir): the names of the entries, in the order the file system
\* lists them.
ScanNames(dir) ==
    CASE dir = <<>>                -> <<"x", "d", "e", "o">>
      [] dir = <<"d">>             -> <<"s", "a", "u", "b", "l">>
      [] dir = <<"d", "s">>        -> <<"c", "t">>
      [] dir = <<"d", "s", "t">>   -> <<"g">>
      [] dir = <<"d", "u">>        -> <<"f">>
      [] dir = <<"e">>             -> <<"h", "v", "w", "k">>
      [] dir = <<"e", "v">>        -> <<"m", "y">>
      [] OTHER                     -> <<>>

\* st_size of a regular file (ties on purpose).
SizeOf(p) ==
    CASE p = <<"d", "a">>           -> 2
      [] p = <<"d", "b">>           -> 1
      [] p = <<"d", "s", "c">>      -> 2
      [] p = <<"d", "s", "t", "g">> -> 1
      [] p = <<"d", "u", "f">>      -> 3
      [] p = <<"e", "v", "y">>      -> 2
      [] OTHER                      -> 1

\* Path.exists(), Path.is_dir(), Path.is_file() of a path that is no symlink
\* (no root of this model is one): False when stat fails.
Exists(p) == p \in (DirPaths \cup FilePaths) \ Vanished
IsDir(p) == p \in DirPaths
IsFile(p) == p \in FilePaths \ Vanished
\* A listing that takes every entry for a file.
EntryIsAnything(p) == TRUE

\* A listing that takes a symlink to a directory for a directory.
EntryIsDirOrLink(p) == p \in DirPaths \cup LinkPaths

\* DirEntry.is_file(follow_symlinks=False) / is_dir(follow_symlinks=False):
\* answered from the listing, a symlink is neither.
EntryIsFile(p) == p \in FilePaths
EntryIsDir(p) == p \in DirPaths

\* ------------------------------------------------------------------ paths
\* TPath(raw): pathlib drops the "." components of what it is given.
TPath(raw) == SelectSeq(raw, LAMBDA c : c # ".")
\* str(path) as components: the empty path prints as ".".
StrOf(p) == IF p = <<>> THEN <<".">> ELSE p
\* DirEntry.path of entry `name` found by os.scandir(Path(dir)), made a TPath.
EntryPath(dir, name) == TPath(StrOf(dir) \o <<name>>)

\* ------------------------------------------------------------- predicates
\* What can be handed to where(): callables of one positional argument
\* (Callable1), a callable of two arguments, and a value that is no callable.
\*   pTrue    lambda p: True
\*   pBig     lambda p: <size of p> >= 2      (sizes known from the listing)
\*   pStat    lambda p: p.stat().st_size > 0  (OSError on a vanished file)
\*   pBoom    raises ValueError on d/u/f, True elsewhere
\*   pIsFile  lambda p: p.is_file()           (the default of _iter_files)
Callable1 == { "pTrue", "pBig", "pStat", "pBoom", "pIsFile" }
Conditions == Callable1 \cup { "twoArgs", "notCallable" }

\* func(path): "T", "F", or the exception it raises.
Call(func, p) ==
    CASE func = "pTrue"   -> "T"
      [] func = "pBig"    -> IF SizeOf(p) >= 2 THEN "T" ELSE "F"
      [] func = "pStat"   -> IF p \in Vanished THEN "OSError" ELSE "T"
      [] func = "pBoom"   -> IF p = <<"d", "u", "f">> THEN "Error" ELSE "T"
      [] func = "pIsFile" -> IF IsFile(p) THEN "T" ELSE "F"
      [] OTHER            -> "Error"

\* all(func(path) for func in funcs): stops at the first false answer, and
\* an exception met before that propagates.
RECURSIVE AllOf(_, _)
AllOf(funcs, p) ==
    IF funcs = <<>> THEN "T"
    ELSE LET r == Call(Head(funcs), p)
         IN  IF r = "T" THEN AllOf(Tail(funcs), p) ELSE r

\* A _matches_query that lets a path through when any one predicate does.
matches_any(query_func, p) ==
    IF \E i \in 1..Len(query_func) : Call(query_func[i], p) = "T"
    THEN "T" ELSE "F"

\* PQuery._matches_query
matches_query(query_func, p) ==
    IF query_func = <<>> THEN "T" ELSE AllOf(query_func, p)

\* ---------------------------------------------------------------- builder
\* PQuery.__init__: the working state is empty, the arguments are kept.
NewQuery(from0, recursive0, where0) ==
    [ start_paths    |-> <<>>,
      is_recursive   |-> TRUE,
      query_func     |-> <<>>,
      distinct       |-> FALSE,
      init_from      |-> from0,
      init_recursive |-> recursive0,
      init_where     |-> where0 ]

\* A PathInput: one path (a str), or a list whose items are paths or lists of
\* paths.
OnePath(raw) == [ isList |-> FALSE, path |-> raw, items |-> <<>> ]
PathList(items) == [ isList |-> TRUE, path |-> NoPath, items |-> items ]

\* The flattening loop of from_: a nested list is extended in, one level.
RECURSIVE FlattenPaths(_)
FlattenPaths(items) ==
    IF items = <<>> THEN <<>>
    ELSE LET h == Head(items)
         IN  (IF h.isList
              THEN [ i \in 1..Len(h.items) |-> h.items[i].path ]
              ELSE << h.path >>) \o FlattenPaths(Tail(items))

\* self._init_from or "."
DefaultRoot(q) == IF q.init_from = NoPath THEN <<".">> ELSE q.init_from

\* The replace-or-extend decision of from_: one root that prints as ".".
IsDefaultRoot(paths) == Len(paths) = 1 /\ StrOf(paths[1]) = <<".">>

\* PQuery.from_: the builder after the call and the exception raised.
from_(q, paths) ==
    IF paths.isList /\ paths.items = <<>>
    THEN [ q |-> q, exc |-> "ValueError" ]
    ELSE LET flattened == FlattenPaths(IF paths.isList THEN paths.items
                                       ELSE << paths >>)
             start == IF q.start_paths = <<>>
                      THEN << TPath(DefaultRoot(q)) >>
                      ELSE q.start_paths
             added == [ i \in 1..Len(flattened) |-> TPath(flattened[i]) ]
         IN  IF flattened = <<>>
             THEN [ q |-> q, exc |-> "ValueError" ]
             ELSE [ q |-> [ q EXCEPT !.start_paths =
                                IF IsDefaultRoot(start) THEN added
                                ELSE start \o added ],
                    exc |-> "none" ]

\* A recursive() that sets the working value and leaves the constructor's.
recursiveUntilRun(b, flag) == [ b EXCEPT !.is_recursive = flag ]

\* PQuery.recursive
recursive(q, flag) ==
    [ q EXCEPT !.is_recursive = flag,
               !.init_recursive = IF flag THEN "True" ELSE "False" ]

\* PQuery.distinct
distinct(q) == [ q EXCEPT !.distinct = TRUE ]

\* A where() argument: one condition, or an iterable of conditions.
OneCond(c) == [ isIter |-> FALSE, cond |-> c, conds |-> <<>> ]
CondList(cs) == [ isIter |-> TRUE, cond |-> "notCallable", conds |-> cs ]

\* A check that takes every callable, whatever its arguments.
isCallable(f) == f # "notCallable"

\* is_query_func of where()
is_query_func(f) == f \in Callable1

\* The loop of where() over an iterable: every item is appended as it passes
\* the check, and the first item that fails it raises TypeError.
RECURSIVE AppendConds(_, _)
AppendConds(funcs, conds) ==
    IF conds = <<>> THEN [ funcs |-> funcs, exc |-> "none" ]
    ELSE IF ~is_query_func(Head(conds))
         THEN [ funcs |-> funcs, exc |-> "TypeError" ]
         ELSE AppendConds(Append(funcs, Head(conds)), Tail(conds))

\* PQuery.where
where(q, condition) ==
    IF condition.isIter
    THEN LET r == AppendConds(q.query_func, condition.conds)
         IN  [ q |-> [ q EXCEPT !.query_func = r.funcs ], exc |-> r.exc ]
    ELSE IF is_query_func(condition.cond)
         THEN [ q |-> [ q EXCEPT !.query_func = Append(@, condition.cond) ],
                exc |-> "none" ]
         ELSE [ q |-> q, exc |-> "TypeError" ]

\* Defaults that leave the recursion as the builder has it.
ApplyDefaultsButRecursion(b) ==
    [ b EXCEPT
        !.start_paths = IF @ = <<>> THEN << TPath(DefaultRoot(b)) >> ELSE @,
        !.query_func  = IF @ # <<>> THEN @
                        ELSE IF b.init_where # "None" THEN << b.init_where >>
                        ELSE << "pIsFile" >> ]

\* The defaults _iter_files applies when it starts.
ApplyDefaults(q) ==
    [ q EXCEPT
        !.start_paths  = IF @ = <<>> THEN << TPath(DefaultRoot(q)) >> ELSE @,
        !.is_recursive = IF q.init_recursive = "None" THEN TRUE
                         ELSE q.init_recursive = "True",
        !.query_func   = IF @ # <<>> THEN @
                         ELSE IF q.init_where # "None" THEN << q.init_where >>
                         ELSE << "pIsFile" >> ]

\* -------------------------------------------------------------- traversal
\* The state of one _iter_files generator (with the distinct_paths wrapper
\* around it when distinct is on) between two of its yields.
\*   phase   "new" (not started), "run", "done" (exhausted) or "raised"
\*   coe     continue_on_exc
\*   late    self._distinct is read when the first element is asked for
\*           (files(), take(), order_by()) and not when the iterator is made
\*   don     the distinct_paths wrapper is on;  seen: its set
\*   roots   the list object the loop over self.start_paths walks;  ri: index
\*   stack   directories still to list;  cur: the directory being listed
\*   ents    entries of cur not yet examined;  dirs: subdirectories found
\*   evald   the paths _matches_query was called on, in order
\*   listed  the directories os.scandir listed, in order
\*   errors  calls of stats.add_error;  exc: the exception that ended it
NewGen(coe, late, don) ==
    [ phase |-> "new", coe |-> coe, late |-> late, don |-> don, seen |-> {},
      roots |-> <<>>, ri |-> 0, stack |-> <<>>, cur |-> NoPath,
      ents |-> <<>>, dirs |-> <<>>, evald |-> <<>>, listed |-> <<>>,
      errors |-> 0, exc |-> "none" ]

Raised(g, exc) == [ g EXCEPT !.phase = "raised", !.exc = exc ]

\* An entry handler that records the error and gives the traversal up.
EntryAborts(g) == Raised([ g EXCEPT !.errors = @ + 1 ], "OSError")

\* except (OSError, PermissionError) around one entry: the error is recorded
\* and the entry skipped; when failing fast it is raised again, recorded by
\* the handler around the directory and raised from there.
EntryError(g) ==
    IF g.coe THEN [ g EXCEPT !.errors = @ + 1 ]
    ELSE Raised([ g EXCEPT !.errors = @ + 2 ], "OSError")

\* except (OSError, PermissionError) around os.scandir of one directory, and
\* around a start path that is a file.
DirError(g) ==
    IF g.coe THEN [ g EXCEPT !.errors = @ + 1 ]
    ELSE Raised([ g EXCEPT !.errors = @ + 1 ], "OSError")

\* What is done with the answer of _matches_query for path p: g is the
\* generator once p is behind it, onOSError the generator after an OSError.
\* y is the path yielded, NoPath when the generator runs on.
Matched(g, answer, p, onOSError) ==
    CASE answer = "T"       -> [ g |-> g, y |-> p ]
      [] answer = "F"       -> [ g |-> g, y |-> NoPath ]
      [] answer = "OSError" -> [ g |-> onOSError, y |-> NoPath ]
      [] OTHER              -> [ g |-> Raised(g, "Error"), y |-> NoPath ]

\* A walk that forgets the subdirectories it found.
KeepStack(stack, dirs) == stack

\* The subdirectories go onto the stack last-listed first.
PushDirsBackwards(stack, dirs) ==
    stack \o [ i \in 1..Len(dirs) |-> dirs[Len(dirs) + 1 - i] ]

\* stack.extend(dirs), after the loop over the entries of one directory.
PushDirs(stack, dirs) == stack \o dirs

\* One entry of the directory being listed.
ScanEntry(g, q) ==
    LET entry == Head(g.ents)
        rest  == [ g EXCEPT !.ents = Tail(@) ]
    IN  IF entry \in Unexaminable
        THEN [ g |-> EntryError(rest), y |-> NoPath ]
        ELSE IF EntryIsFile(entry)
        THEN Matched([ rest EXCEPT !.evald = Append(@, entry) ],
                     matches_query(q.query_func, entry), entry,
                     EntryError([ rest EXCEPT !.evald = Append(@, entry) ]))
        ELSE IF q.is_recursive /\ EntryIsDir(entry)
        THEN [ g |-> [ rest EXCEPT !.dirs = Append(@, entry) ], y |-> NoPath ]
        ELSE [ g |-> rest, y |-> NoPath ]

\* The entries of a directory, each subdirectory followed at once by what is
\* below it.
RECURSIVE DeepEntries(_)
DeepEntries(dir) ==
    LET names == ScanNames(dir)
        Below(i) == IF EntryPath(dir, names[i]) \in DirPaths
                    THEN DeepEntries(EntryPath(dir, names[i])) ELSE <<>>
        RECURSIVE From(_)
        From(i) == IF i > Len(names) THEN <<>>
                   ELSE << EntryPath(dir, names[i]) >> \o Below(i) \o From(i + 1)
    IN  From(1)

\* A walk that goes down into a subdirectory the moment it meets it.
PopDirDeep(g) ==
    LET current_dir == g.stack[Len(g.stack)]
    IN  [ g EXCEPT !.stack = SubSeq(@, 1, Len(@) - 1),
                   !.cur = current_dir,
                   !.listed = Append(@, current_dir),
                   !.ents = DeepEntries(current_dir),
                   !.dirs = <<>> ]

\* current_dir = stack.pop() and os.scandir(current_dir).
PopDir(g) ==
    LET current_dir == g.stack[Len(g.stack)]
        popped == [ g EXCEPT !.stack = SubSeq(@, 1, Len(@) - 1) ]
        names == ScanNames(current_dir)
    IN  IF current_dir \in Unlistable
        THEN DirError(popped)
        ELSE [ popped EXCEPT
                 !.cur = current_dir,
                 !.listed = Append(@, current_dir),
                 !.ents = [ i \in 1..Len(names) |->
                              EntryPath(current_dir, names[i]) ],
                 !.dirs = <<>> ]

\* A loop over the start paths that ends at one that does not exist.
NextRootOrStop(g, b) ==
    IF g.ri >= Len(g.roots) \/ ~Exists(g.roots[g.ri + 1])
    THEN [ g |-> [ g EXCEPT !.phase = "done" ], y |-> NoPath ]
    ELSE LET start_path == g.roots[g.ri + 1]
             next == [ g EXCEPT !.ri = @ + 1 ]
         IN  IF ~IsDir(start_path)
             THEN Matched([ next EXCEPT !.evald = Append(@, start_path) ],
                          matches_query(b.query_func, start_path), start_path,
                          DirError([ next EXCEPT
                                       !.evald = Append(@, start_path) ]))
             ELSE [ g |-> [ next EXCEPT !.stack = << start_path >> ],
                    y |-> NoPath ]

\* The next start path of the loop over self.start_paths.
NextRoot(g, q) ==
    IF g.ri >= Len(g.roots)
    THEN [ g |-> [ g EXCEPT !.phase = "done" ], y |-> NoPath ]
    ELSE LET start_path == g.roots[g.ri + 1]
             next == [ g EXCEPT !.ri = @ + 1 ]
         IN  IF ~Exists(start_path)
             THEN [ g |-> next, y |-> NoPath ]
             ELSE IF ~IsDir(start_path)
             THEN Matched([ next EXCEPT !.evald = Append(@, start_path) ],
                          matches_query(q.query_func, start_path), start_path,
                          DirError([ next EXCEPT
                                       !.evald = Append(@, start_path) ]))
             ELSE [ g |-> [ next EXCEPT !.stack = << start_path >> ],
                    y |-> NoPath ]

\* One step of the body of _iter_files, the builder q read as it is now.
IterStep(g, q) ==
    IF g.cur # NoPath
    THEN IF g.ents = <<>>
         THEN [ g |-> [ g EXCEPT !.stack = PushDirs(g.stack, g.dirs),
                                 !.cur = NoPath, !.dirs = <<>> ],
                y |-> NoPath ]
         ELSE ScanEntry(g, q)
    ELSE IF g.stack # <<>>
    THEN [ g |-> PopDir(g), y |-> NoPath ]
    ELSE NextRoot(g, q)

\* A distinct_paths that remembers nothing.
NeverSeen(seen, path) == TRUE

\* distinct_paths: a path already seen is not yielded again.
IsNew(seen, path) == path \notin seen

\* The generator run to its next yield, its end or its exception, and what
\* follows a step r of it: a path the distinct_paths wrapper has seen is
\* passed over.
RECURSIVE RunToYield(_, _)
RECURSIVE AfterStep(_, _)
AfterStep(r, q) ==
    IF r.g.phase \in { "done", "raised" } THEN r
    ELSE IF r.y = NoPath THEN RunToYield(r.g, q)
    ELSE IF ~r.g.don THEN r
    ELSE IF IsNew(r.g.seen, r.y)
    THEN [ r EXCEPT !.g.seen = @ \cup { r.y } ]
    ELSE RunToYield(r.g, q)

RunToYield(g, q) == AfterStep(IterStep(g, q), q)

\* What next() hands back: the generator, the builder and the path yielded.
Handed(r, q) == [ g |-> r.g, q |-> q, y |-> r.y ]

\* The first next(): the generator takes the start_paths list of the
\* builder, to which the defaults were applied (q1).
FirstNext(g, q1) ==
    Handed(RunToYield([ g EXCEPT !.phase = "run",
                                 !.roots = q1.start_paths,
                                 !.don = IF g.late THEN q1.distinct ELSE @ ],
                      q1), q1)

\* next() on the iterator: the first call applies the defaults to the
\* builder; a finished generator stays finished.
Next1(g, q) ==
    IF g.phase \in { "done", "raised" }
    THEN [ g |-> g, q |-> q, y |-> NoPath ]
    ELSE IF g.phase = "new" THEN FirstNext(g, ApplyDefaults(q))
    ELSE Handed(RunToYield(g, q), q)

\* Up to n elements pulled (itertools.islice, list, sum, enumerate): the
\* elements, the generator and the builder afterwards.  n < 0: all of them.
\* PullOn goes on from what one next() handed back.
RECURSIVE Pull(_, _, _, _)
RECURSIVE PullOn(_, _, _)
PullOn(r, n, out) ==
    IF r.y = NoPath THEN [ g |-> r.g, q |-> r.q, out |-> out ]
    ELSE Pull(r.g, r.q, n - 1, Append(out, r.y))

Pull(g, q, n, out) ==
    IF n = 0 THEN [ g |-> g, q |-> q, out |-> out ]
    ELSE PullOn(Next1(g, q), n, out)

\* ---------------------------------------------------------------- sorting
\* The order of Python strings on the names of this file system.
NameRank(c) ==
    CASE c = "a" -> 1 [] c = "b" -> 2 [] c = "c" -> 3 [] c = "d" -> 4
      [] c = "e" -> 5 [] c = "f" -> 6 [] c = "g" -> 7 [] c = "h" -> 8
      [] c = "k" -> 9 [] c = "l" -> 10 [] c = "m" -> 11 [] c = "o" -> 12
      [] c = "s" -> 13 [] c = "t" -> 14 [] c = "u" -> 15 [] c = "v" -> 16
      [] c = "w" -> 17 [] c = "x" -> 18 [] c = "y" -> 19 [] OTHER -> 0

\* Path.__lt__: the component lists compared as Python compares lists.
RECURSIVE PathLess(_, _)
PathLess(a, b) ==
    IF b = <<>> THEN FALSE
    ELSE IF a = <<>> THEN TRUE
    ELSE IF Head(a) = Head(b) THEN PathLess(Tail(a), Tail(b))
    ELSE NameRank(Head(a)) < NameRank(Head(b))

\* The sort keys of the model: "none" (the paths themselves) and "size"
\* (lambda p: p.size.bytes).
KeyLess(key, a, b) ==
    IF key = "none" THEN PathLess(a, b) ELSE SizeOf(a) < SizeOf(b)

\* sorted(files, key=key, reverse=reverse): a stable sort, and stable too
\* when reversed: elements that compare equal keep the order they came in.
SortsBefore(key, reverse, a, b) ==
    IF reverse THEN KeyLess(key, b, a) ELSE KeyLess(key, a, b)

InsertSorted(sorted, x, key, reverse) ==
    LET k == Cardinality({ i \in 1..Len(sorted) :
                             ~SortsBefore(key, reverse, x, sorted[i]) })
    IN  SubSeq(sorted, 1, k) \o << x >> \o SubSeq(sorted, k + 1, Len(sorted))

RECURSIVE SortInto(_, _, _, _)
SortInto(sorted, files, key, reverse) ==
    IF files = <<>> THEN sorted
    ELSE SortInto(InsertSorted(sorted, Head(files), key, reverse),
                  Tail(files), key, reverse)

Sorted(files, key, reverse) == SortInto(<<>>, files, key, reverse)

\* heapq.nlargest / heapq.nsmallest as take() calls them, on a generator and
\* with a key.  The heap holds (key, order, element) entries: order falls for
\* nlargest and rises for nsmallest as elements arrive, so that of two equal
\* keys the earlier element counts as the better one.
HeapEntry(k, order, elem) == [ k |-> k, order |-> order, elem |-> elem ]

\* The order of the (key, order, element) tuples.
EntryLess(a, b) == a.k < b.k \/ (a.k = b.k /\ a.order < b.order)

\* The entry at the top of the heap: the least for nlargest (a min-heap),
\* the greatest for nsmallest (a max-heap).
HeapTop(heap, largest) ==
    IF largest
    THEN CHOOSE t \in heap : \A u \in heap : u = t \/ EntryLess(t, u)
    ELSE CHOOSE t \in heap : \A u \in heap : u = t \/ EntryLess(u, t)

\* A heap in which an arriving key also replaces a top it only equals.
ReplacesOnTie(k, top, largest) == IF largest THEN top.k <= k ELSE k <= top.k

\* Whether an arriving key replaces the top: "if top < k" in nlargest,
\* "if k < top" in nsmallest.
Replaces(k, top, largest) == IF largest THEN top.k < k ELSE k < top.k

\* The loop over the elements: the first n fill the heap, a later one
\* replaces the top when it is better.
RECURSIVE HeapFeed(_, _, _, _, _)
HeapFeed(heap, order, elems, n, largest) ==
    IF elems = <<>> THEN heap
    ELSE LET elem == Head(elems)
             step == IF largest THEN -1 ELSE 1
             entry == HeapEntry(SizeOf(elem), order, elem)
         IN  IF Cardinality(heap) < n
             THEN HeapFeed(heap \cup { entry }, order + step, Tail(elems),
                           n, largest)
             ELSE IF Replaces(entry.k, HeapTop(heap, largest), largest)
             THEN HeapFeed((heap \ { HeapTop(heap, largest) }) \cup { entry },
                           order + step, Tail(elems), n, largest)
             ELSE HeapFeed(heap, order, Tail(elems), n, largest)

\* result.sort(reverse=largest) and the elements of the entries.
RECURSIVE HeapSorted(_, _)
HeapSorted(heap, largest) ==
    IF heap = {} THEN <<>>
    ELSE LET first == HeapTop(heap, ~largest)
         IN  << first.elem >> \o HeapSorted(heap \ { first }, largest)

nlargest(n, elems) == HeapSorted(HeapFeed({}, 0, elems, n, TRUE), TRUE)
nsmallest(n, elems) == HeapSorted(HeapFeed({}, 0, elems, n, FALSE), FALSE)

\* ------------------------------------------------------- terminal methods
\* What an eagerly evaluated terminal call did:
\*   op, coe, n, key, rev   the method and its arguments (n: limit)
\*   pulled   the elements it pulled from the iterator, in order
\*   out      the list it returned (first(): the element, or empty for None)
\*   val      the number it returned (count(); exists(): 1 for True)
\*   exc      the exception it raised instead of returning
\*   evald, listed, errors   as in the generator it ran
NoResult ==
    [ op |-> "none", coe |-> TRUE, n |-> 0, key |-> "none", rev |-> FALSE,
      pulled |-> <<>>, out |-> <<>>, val |-> 0, exc |-> "none",
      evald |-> <<>>, listed |-> <<>>, errors |-> 0 ]

\* A call that ran the generator, r being what Pull returned: the builder
\* after it and its result.
Outcome(op, coe, n, key, rev, r, out, val) ==
    [ q |-> r.q,
      res |-> [ op |-> op, coe |-> coe, n |-> n, key |-> key, rev |-> rev,
                pulled |-> r.out,
                out |-> IF r.g.phase = "raised" THEN <<>> ELSE out,
                val |-> IF r.g.phase = "raised" THEN 0 ELSE val,
                exc |-> r.g.exc,
                evald |-> r.g.evald, listed |-> r.g.listed,
                errors |-> r.g.errors ] ]

\* The iterator files(continue_on_exc) returns: _distinct_iter_files is
\* called, continue_on_exc passed on, when its first element is asked for.
FilesGen(coe) == NewGen(coe, TRUE, FALSE)

\* safe_iter() of take() and order_by(): _distinct_iter_files() is called
\* without continue_on_exc, which is then its default, True.
SafeIterGen(coe) == NewGen(TRUE, TRUE, FALSE)

\* The first `limit` elements of what enumerate() handed over.
FirstOf(elems, limit) ==
    SubSeq(elems, 1, IF limit < Len(elems) THEN limit ELSE Len(elems))

\* The generator under select(): _distinct_iter_files() is called without
\* continue_on_exc when the first element is asked for.
SelectGen == NewGen(TRUE, TRUE, FALSE)

\* field(path) of select(), for the field lambda p: p.size.bytes: stat() of a
\* file that has vanished raises OSError.
ApplyField(p) == IF p \in Vanished THEN "OSError" ELSE "value"

\* next() on the generator of select(): the field of the next match is
\* yielded; when the field raises, the match is passed over, or the exception
\* raised when continue_on_exc is False.  r is what the traversal handed over.
RECURSIVE SelectNext(_, _, _)
SelectOn(r, coe) ==
    IF r.y = NoPath \/ ApplyField(r.y) # "OSError" THEN r
    ELSE IF coe THEN SelectNext(r.g, r.q, coe)
    ELSE [ r EXCEPT !.g = Raised(@, "OSError"), !.y = NoPath ]

SelectNext(g, b, coe) == SelectOn(Next1(g, b), coe)

\* PQuery.count: sum(1 for _ in self.files(continue_on_exc))
Summed(r, coe) == Outcome("count", coe, 0, "none", FALSE, r, <<>>, Len(r.out))

count(q, coe) == Summed(Pull(FilesGen(coe), q, -1, <<>>), coe)

\* A first() that runs the traversal to its end before it returns.
firstOfAll(b, coe) ==
    LET r == Pull(FilesGen(coe), b, -1, <<>>)
    IN  Outcome("first", coe, 0, "none", FALSE, r, FirstOf(r.out, 1), 0)

\* PQuery.first: next(self.files(continue_on_exc)), None on StopIteration
NextOrNone(r, coe) == Outcome("first", coe, 0, "none", FALSE, r, r.out, 0)

first(q, coe) == NextOrNone(Pull(FilesGen(coe), q, 1, <<>>), coe)

\* PQuery.exists: next(self._distinct_iter_files()), False on StopIteration
NextOrFalse(r) ==
    Outcome("exists", TRUE, 0, "none", FALSE, r, <<>>,
            IF r.out = <<>> THEN 0 ELSE 1)

exists(q) == NextOrFalse(Pull(NewGen(TRUE, FALSE, q.distinct), q, 1, <<>>))

\* take() without a key: the loop asks for an element and only then compares
\* its index with limit.
Enumerated(r, limit, coe) ==
    Outcome("take", coe, limit, "none", TRUE, r, FirstOf(r.out, limit), 0)

TakeInOrder(q, limit, coe) ==
    Enumerated(Pull(SafeIterGen(coe), q, limit + 1, <<>>), limit, coe)

\* take() with a key: heapq asks for no element when limit is 0.
Heaped(r, limit, key, reverse, coe) ==
    Outcome("take", coe, limit, key, reverse, r,
            IF reverse THEN nlargest(limit, r.out)
            ELSE nsmallest(limit, r.out), 0)

TakeByKey(q, limit, key, reverse, coe) ==
    IF limit = 0
    THEN [ q |-> q,
           res |-> [ NoResult EXCEPT !.op = "take", !.coe = coe, !.n = limit,
                                     !.key = key, !.rev = reverse ] ]
    ELSE Heaped(Pull(SafeIterGen(coe), q, -1, <<>>), limit, key, reverse, coe)

\* PQuery.take
take(q, limit, key, reverse, coe) ==
    IF key = "none" THEN TakeInOrder(q, limit, coe)
    ELSE TakeByKey(q, limit, key, reverse, coe)

\* PQuery.order_by
Listed(r, key, ascending, coe) ==
    Outcome("order_by", coe, 0, key, ~ascending, r,
            Sorted(r.out, key, ~ascending), 0)

order_by(q, key, ascending, coe) ==
    Listed(Pull(SafeIterGen(coe), q, -1, <<>>), key, ascending, coe)

\* --------------------------------------------------------------- calendar
\* tpath.chronos (src/src/tpath/chronos/_cal.py).  A datetime.datetime is the
\* record of its fields, to the second; a datetime.date is a datetime at
\* 00:00:00.
DateTime(year, month, day, hour, minute, second) ==
    [ year |-> year, month |-> month, day |-> day,
      hour |-> hour, minute |-> minute, second |-> second ]

\* The proleptic Gregorian calendar of the datetime module.
IsLeap(year) == year % 4 = 0 /\ (year % 100 # 0 \/ year % 400 = 0)

DaysInMonth(year, month) ==
    IF month = 2 THEN (IF IsLeap(year) THEN 29 ELSE 28)
    ELSE IF month \in { 4, 6, 9, 11 } THEN 30 ELSE 31

DaysBeforeYear(year) ==
    365 * (year - 1) + ((year - 1) \div 4) - ((year - 1) \div 100)
      + ((year - 1) \div 400)

RECURSIVE DaysBeforeMonth(_, _)
DaysBeforeMonth(year, month) ==
    IF month = 1 THEN 0
    ELSE DaysBeforeMonth(year, month - 1) + DaysInMonth(year, month - 1)

\* date.toordinal(): 1 for 0001-01-01.
ToOrdinal(t) ==
    DaysBeforeYear(t.year) + DaysBeforeMonth(t.year, t.month) + t.day

\* date.fromordinal(n), at 00:00:00.
FromOrdinal(n) ==
    LET year == CHOOSE y \in (n \div 366)..((n \div 365) + 1) :
                   DaysBeforeYear(y) < n /\ n <= DaysBeforeYear(y + 1)
        month == CHOOSE m \in 1..12 :
                    /\ DaysBeforeMonth(year, m) < n - DaysBeforeYear(year)
                    /\ n - DaysBeforeYear(year)
                          <= DaysBeforeMonth(year, m) + DaysInMonth(year, m)
    IN  DateTime(year, month,
                 n - DaysBeforeYear(year) - DaysBeforeMonth(year, month),
                 0, 0, 0)

\* The seconds since midnight.
SecondOfDay(t) == t.hour * 3600 + t.minute * 60 + t.second

\* datetime + datetime.timedelta(days=days, seconds=seconds)
AddDelta(t, days, seconds) ==
    LET sod == SecondOfDay(t) + seconds
        date == FromOrdinal(ToOrdinal(t) + days + (sod \div 86400))
        rest == sod % 86400
    IN  [ date EXCEPT !.hour = rest \div 3600,
                      !.minute = (rest % 3600) \div 60,
                      !.second = rest % 60 ]

\* datetime.date()
DateOf(t) == [ t EXCEPT !.hour = 0, !.minute = 0, !.second = 0 ]

\* A weekday numbered from Sunday.
WeekdayFromSunday(t) == ToOrdinal(t) % 7

\* date.weekday(): 0 for Monday.
Weekday(t) == (ToOrdinal(t) + 6) % 7

\* a <= b and a < b on datetimes and on dates.
TimeLeq(a, b) ==
    \/ ToOrdinal(a) < ToOrdinal(b)
    \/ ToOrdinal(a) = ToOrdinal(b) /\ SecondOfDay(a) <= SecondOfDay(b)

\* A comparison that lets the end in.
TimeLessOrOn(a, b) == TimeLeq(a, b)

TimeLess(a, b) == TimeLeq(a, b) /\ a # b

\* A str is the sequence of its characters.
\* str.lower() on the letters the model uses.
LowerChar(c) ==
    CASE c = "A" -> "a" [] c = "D" -> "d" [] c = "E" -> "e" [] c = "F" -> "f"
      [] c = "H" -> "h" [] c = "I" -> "i" [] c = "M" -> "m" [] c = "N" -> "n"
      [] c = "O" -> "o" [] c = "R" -> "r" [] c = "S" -> "s" [] c = "T" -> "t"
      [] c = "U" -> "u" [] c = "W" -> "w" [] c = "Y" -> "y" [] OTHER -> c

Lower(str) == [ i \in 1..Len(str) |-> LowerChar(str[i]) ]

\* str.strip()
RECURSIVE LStrip(_)
LStrip(str) ==
    IF str # <<>> /\ Head(str) = " " THEN LStrip(Tail(str)) ELSE str

RECURSIVE RStrip(_)
RStrip(str) ==
    IF str # <<>> /\ str[Len(str)] = " "
    THEN RStrip(SubSeq(str, 1, Len(str) - 1)) ELSE str

Strip(str) == RStrip(LStrip(str))

\* The pandas-style prefix of normalize_weekday is taken off, once.
WithoutPrefix(str) ==
    IF Len(str) >= 2 /\ SubSeq(str, 1, 2) = << "w", "-" >>
    THEN SubSeq(str, 3, Len(str)) ELSE str

\* day_names, day_abbrev3 and day_abbrev2 of normalize_weekday, by weekday
\* number 0..6.
DayNames ==
    << << "m", "o", "n", "d", "a", "y" >>,
       << "t", "u", "e", "s", "d", "a", "y" >>,
       << "w", "e", "d", "n", "e", "s", "d", "a", "y" >>,
       << "t", "h", "u", "r", "s", "d", "a", "y" >>,
       << "f", "r", "i", "d", "a", "y" >>,
       << "s", "a", "t", "u", "r", "d", "a", "y" >>,
       << "s", "u", "n", "d", "a", "y" >> >>

\* Every abbreviation is the beginning of the full name.
DayAbbrev(day, letters) == SubSeq(DayNames[day + 1], 1, letters)

DaySpellings(day) ==
    { DayNames[day + 1], DayAbbrev(day, 3), DayAbbrev(day, 2) }

\* normalize_weekday: the weekday number, or ValueError.
normalize_weekday(day_spec) ==
    LET spec == WithoutPrefix(Strip(Lower(day_spec)))
    IN  IF \E day \in 0..6 : spec \in DaySpellings(day)
        THEN [ day |-> CHOOSE day \in 0..6 : spec \in DaySpellings(day),
               exc |-> "none" ]
        ELSE [ day |-> 0, exc |-> "ValueError" ]

\* What a window method returns or raises.
Answer(res) == [ res |-> res, exc |-> "none" ]

\* A window whose start is taken as given.
StartAsGiven(start, end) == start

\* "if start > end: start, end = end, start"
Earlier(start, end) == IF start > end THEN end ELSE start

Later(start, end) == IF start > end THEN start ELSE end

\* Cal.win_weeks, on the time object t (t.datetime, t.base_time).
WeekWindow(t, start, end, week_start_day) ==
    LET target_date == DateOf(t.datetime)
        base_date == DateOf(t.base_time)
        days_since_week_start == (Weekday(base_date) - week_start_day) % 7
        current_week_start == AddDelta(base_date, -days_since_week_start, 0)
        start_week_start == AddDelta(current_week_start, 7 * start, 0)
        end_week_start == AddDelta(current_week_start, 7 * end, 0)
        end_week_end == AddDelta(end_week_start, 6, 0)
    IN  TimeLeq(start_week_start, target_date)
        /\ TimeLeq(target_date, end_week_end)

win_weeks(t, start, end, week_start) ==
    IF normalize_weekday(week_start).exc # "none"
    THEN [ res |-> FALSE, exc |-> normalize_weekday(week_start).exc ]
    ELSE Answer(WeekWindow(t, Earlier(start, end), Later(start, end),
                           normalize_weekday(week_start).day))

\* datetime.replace(second=0, microsecond=0)
StartOfMinute(t) == [ t EXCEPT !.second = 0 ]

\* datetime.replace(minute=0, second=0, microsecond=0)
StartOfHour(t) == [ t EXCEPT !.minute = 0, !.second = 0 ]

\* Cal.win_minutes
MinuteWindow(target_time, base_time, start, end) ==
    /\ TimeLeq(StartOfMinute(AddDelta(base_time, 0, 60 * start)), target_time)
    /\ TimeLess(target_time,
                AddDelta(StartOfMinute(AddDelta(base_time, 0, 60 * end)), 0, 60))

win_minutes(t, start, end) ==
    Answer(MinuteWindow(t.datetime, t.base_time,
                        Earlier(start, end), Later(start, end)))

\* Cal.win_hours
HourWindow(target_time, base_time, start, end) ==
    /\ TimeLeq(StartOfHour(AddDelta(base_time, 0, 3600 * start)), target_time)
    /\ TimeLess(target_time,
                AddDelta(StartOfHour(AddDelta(base_time, 0, 3600 * end)),
                         0, 3600))

win_hours(t, start, end) ==
    Answer(HourWindow(t.datetime, t.base_time,
                      Earlier(start, end), Later(start, end)))

\* Cal.win_days
DayWindow(target_date, base_time, start, end) ==
    /\ TimeLeq(DateOf(AddDelta(base_time, start, 0)), target_date)
    /\ TimeLeq(target_date, DateOf(AddDelta(base_time, end, 0)))

win_days(t, start, end) ==
    Answer(DayWindow(DateOf(t.datetime), t.base_time,
                     Earlier(start, end), Later(start, end)))

\* A borrow that leaves the year as it is.
RECURSIVE BorrowSameYear(_, _, _)
BorrowSameYear(unit, year, per) ==
    IF unit <= 0 THEN BorrowSameYear(unit + per, year, per)
    ELSE [ unit |-> unit, year |-> year ]

\* "while start_month <= 0: start_month += 12; start_year -= 1", and the
\* same loop on quarters with 4.
RECURSIVE Borrow(_, _, _)
Borrow(unit, year, per) ==
    IF unit <= 0 THEN Borrow(unit + per, year - 1, per)
    ELSE [ unit |-> unit, year |-> year ]

\* "while start_month > 12: start_month -= 12; start_year += 1"
RECURSIVE Carry(_, _, _)
Carry(unit, year, per) ==
    IF unit > per THEN Carry(unit - per, year + 1, per)
    ELSE [ unit |-> unit, year |-> year ]

\* The two loops, one after the other.
BorrowThenCarry(b, per) == Carry(b.unit, b.year, per)

\* start_month, start_year (end_month, end_year) of win_months
MonthAt(base_time, offset) ==
    BorrowThenCarry(Borrow(base_time.month + offset, base_time.year, 12), 12)

\* "year * 12 + month"
MonthIndex(year, month) == year * 12 + month

Within(start_index, index, end_index) ==
    start_index <= index /\ index <= end_index

\* Cal.win_months
MonthWindow(target_time, start, end) ==
    Within(MonthIndex(start.year, start.unit),
           MonthIndex(target_time.year, target_time.month),
           MonthIndex(end.year, end.unit))

win_months(t, start, end) ==
    Answer(MonthWindow(t.datetime,
                       MonthAt(t.base_time, Earlier(start, end)),
                       MonthAt(t.base_time, Later(start, end))))

\* A quarter counted from the month number itself: December would open a
\* fifth quarter.
QuarterFromZero(t) == (t.month \div 3) + 1

\* "((base_time.month - 1) // 3) + 1"
QuarterOf(t) == ((t.month - 1) \div 3) + 1

\* start_quarter, start_year (end_quarter, end_year) of win_quarters
QuarterAt(base_time, offset) ==
    BorrowThenCarry(Borrow(QuarterOf(base_time) + offset, base_time.year, 4),
                    4)

\* "year * 4 + quarter"
QuarterIndex(year, quarter) == year * 4 + quarter

\* Cal.win_quarters
QuarterWindow(target_time, start, end) ==
    Within(QuarterIndex(start.year, start.unit),
           QuarterIndex(target_time.year, QuarterOf(target_time)),
           QuarterIndex(end.year, end.unit))

win_quarters(t, start, end) ==
    Answer(QuarterWindow(t.datetime,
                         QuarterAt(t.base_time, Earlier(start, end)),
                         QuarterAt(t.base_time, Later(start, end))))

\* Cal.win_years
YearWindow(target_year, base_year, start, end) ==
    Within(base_year + start, target_year, base_year + end)

win_years(t, start, end) ==
    Answer(YearWindow(t.datetime.year, t.base_time.year,
                      Earlier(start, end), Later(start, end)))

\* ------------------------------------------------------------ stat caching
\* TPath (src/src/tpath/_core.py) and Time (src/src/tpath/_time.py).  The
\* file a TPath names is there or not; its stat result is a version number
\* that every change of the file replaces.
NoFile == [ present |-> FALSE, version |-> 0 ]

\* TPath(...): nothing cached yet; reads records what the calls made on the
\* instance returned.
NewTPath == [ stat_cache |-> [ state |-> "unset", st |-> 0 ], reads |-> <<>> ]

\* os.stat on the file as it is now (Path.stat).
OsStat(file) ==
    IF file.present THEN [ exc |-> "none", st |-> file.version ]
    ELSE [ exc |-> "FileNotFoundError", st |-> 0 ]

\* TPath._stat_cache, a cached_property: computed at the first access, the
\* stat result or None, and kept.
stat_cache(self, file) ==
    IF self.stat_cache.state # "unset" THEN self.stat_cache
    ELSE IF OsStat(file).exc = "none"
    THEN [ state |-> "stat", st |-> OsStat(file).st ]
    ELSE [ state |-> "None", st |-> 0 ]

Cached(self, file) == [ self EXCEPT !.stat_cache = stat_cache(self, file) ]

\* TPath.stat: the instance after the call and what the call returns or
\* raises.
stat(self, file, follow_symlinks) ==
    IF ~follow_symlinks THEN [ self |-> self, res |-> OsStat(file) ]
    ELSE IF stat_cache(self, file).state = "None"
    THEN [ self |-> Cached(self, file), res |-> OsStat(file) ]
    ELSE [ self |-> Cached(self, file),
           res |-> [ exc |-> "none", st |-> stat_cache(self, file).st ] ]

\* Time.timestamp: 0 when path.exists() is false (Path.exists is "stat()
\* did not raise"), else a time of _get_stat(), which is path.stat().
timestamp(self, file) ==
    IF stat(self, file, TRUE).res.exc # "none"
    THEN [ self |-> stat(self, file, TRUE).self,
           res |-> [ exc |-> "none", st |-> 0 ] ]
    ELSE stat(stat(self, file, TRUE).self, file, TRUE)

\* ------------------------------------------------------------------ state
\* ctor     the arguments the builder was constructed with
\* q        the PQuery builder
\* decl     the same constructor arguments and builder calls on a builder on
\*          which no terminal method is ever run
\* fromLog  the paths handed to the from_() calls that returned, in order
\* recSet   the argument of the latest recursive() call ("None": no call)
\* calls    the number of builder calls made, a window call counted as one
\* bexc     the exception the step just taken raised, when it was a builder
\*          call ("none" otherwise)
\* execs    the iterators of files(), iter() and paginate() in the hands of
\*          the caller, by the name of the variable that holds each
\* last     what the step just taken returned, when it was an eagerly
\*          evaluated terminal call (NoResult otherwise)
\* time_obj the object a Cal was made for: its datetime and its base_time
\* cal      the call of a window method of the Cal made in the step just
\*          taken, and what it returned or raised (NoCal otherwise)
VARIABLES ctor, q, decl, fromLog, recSet, calls, bexc, execs, last,
          time_obj, cal, disk, tpath

vars ==
    << ctor, q, decl, fromLog, recSet, calls, bexc, execs, last,
       time_obj, cal, disk, tpath >>

\* The arguments the calls of the model are made with.
CtorArgs ==
    { << NoPath, "None", "None" >>, << <<"d">>, "None", "pTrue" >>,
      << <<"d">>, "True", "pBig" >>, << NoPath, "False", "None" >> }

FromInputs ==
    { OnePath(<<"d">>), OnePath(<<".">>),
      PathList(<< OnePath(<<".", "d", "s">>), OnePath(<<"d">>) >>),
      PathList(<< OnePath(<<"n">>), PathList(<< OnePath(<<"x">>) >>) >>),
      PathList(<< OnePath(<<"n">>), OnePath(<<"o">>) >>),
      PathList(<<>>), PathList(<< PathList(<<>>) >>) }

WhereInputs ==
    { OneCond("pTrue"), OneCond("pBoom"),
      CondList(<<"pStat", "pBig">>), CondList(<<"pBig", "twoArgs">>),
      CondList(<<>>), OneCond("notCallable") }

Keys == { "none", "size" }

\* The variables of the caller that hold an iterator.
OneSlot == { "it" }

TwoSlots == { "it", "jt" }

Slots == DOMAIN execs

\* A lazy execution in the hands of the caller.
\*   kind    "files", "iter", "select" or "paginate" ("none": the variable
\*           is unset)
\*   page    page_size;  fcoe: continue_on_exc of select()
\*   g       the generator under it
\*   out     the elements it has yielded (files, iter), the matches whose
\*           field it has yielded (select)
\*   pages   the pages it has yielded (paginate);  pphase: the phase of the
\*           paginate generator itself
\*   cfg     the builder as the generator found it when it started
\*   dirty   a builder call was made while it was running
NewExec(kind, page, g, b) ==
    [ kind |-> kind, page |-> page, fcoe |-> TRUE, g |-> g, out |-> <<>>,
      pages |-> <<>>,
      pphase |-> "new", cfg |-> b, dirty |-> FALSE ]

NoExec == NewExec("none", 0, NewGen(TRUE, FALSE, FALSE),
                  NewQuery(NoPath, "None", "None"))

Running(e) ==
    IF e.kind = "paginate" THEN e.pphase = "run" ELSE e.g.phase = "run"

\* Chronos(target_time, reference_time), the object Cal reads.
TimeObj(target_time, reference_time) ==
    [ datetime |-> target_time, base_time |-> reference_time ]

\* No Cal is in use: the builder's own specifications.
NoTimeObj ==
    TimeObj(DateTime(2024, 1, 1, 0, 0, 0), DateTime(2024, 1, 1, 0, 0, 0))

\* The offsets of a window call: (start) alone or (start, end).
Offsets == (-MaxOffset)..MaxOffset

Windows ==
    { << start >> : start \in Offsets }
    \cup { << start, end >> : start, end \in Offsets }

\* "if end is None: end = start"
EndOf(window) == IF Len(window) = 1 THEN window[1] ELSE window[2]

\* week_start: 'monday', 'TUE', 'we', 'w-thu', 'Friday', ' sa ', 'W-SUN',
\* and 'funday', 'w-w-mon', 'w- mon', ''.
WeekStarts ==
    { << "m", "o", "n", "d", "a", "y" >>, << "T", "U", "E" >>,
      << "w", "e" >>, << "w", "-", "t", "h", "u" >>,
      << "F", "r", "i", "d", "a", "y" >>, << " ", "s", "a", " " >>,
      << "W", "-", "S", "U", "N" >>,
      << "f", "u", "n", "d", "a", "y" >>,
      << "w", "-", "w", "-", "m", "o", "n" >>,
      << "w", "-", " ", "m", "o", "n" >>, << >> }

\* The reference times: in January, on the last minute of a year, and on
\* the leap day.
References ==
    { DateTime(2024, 1, 15, 10, 30, 15), DateTime(2024, 12, 31, 23, 59, 30),
      DateTime(2024, 2, 29, 12, 0, 0) }

\* The target times: around each reference by seconds, minutes, hours,
\* days, weeks, months, quarters and years, and one reference itself.
Targets ==
    { DateTime(2024, 1, 15, 10, 30, 0), DateTime(2024, 1, 15, 10, 29, 59),
      DateTime(2024, 1, 15, 10, 32, 59), DateTime(2024, 1, 15, 9, 0, 0),
      DateTime(2024, 1, 14, 0, 0, 0), DateTime(2024, 1, 7, 23, 59, 59),
      DateTime(2024, 1, 22, 0, 0, 0),
      DateTime(2023, 12, 31, 23, 59, 59), DateTime(2023, 12, 1, 0, 0, 0),
      DateTime(2023, 11, 30, 23, 59, 59), DateTime(2023, 9, 30, 12, 0, 0),
      DateTime(2022, 12, 31, 23, 59, 59), DateTime(2021, 12, 15, 8, 0, 0),
      DateTime(2024, 12, 31, 23, 59, 0), DateTime(2024, 12, 31, 23, 58, 59),
      DateTime(2024, 12, 31, 22, 0, 0), DateTime(2024, 12, 30, 0, 0, 0),
      DateTime(2025, 1, 1, 0, 0, 0), DateTime(2025, 1, 1, 0, 1, 59),
      DateTime(2025, 1, 1, 1, 0, 0), DateTime(2025, 1, 5, 23, 59, 59),
      DateTime(2025, 4, 1, 0, 0, 0), DateTime(2026, 1, 31, 0, 0, 0),
      DateTime(2027, 2, 1, 0, 0, 0),
      DateTime(2024, 2, 29, 12, 0, 59), DateTime(2024, 2, 29, 13, 59, 59),
      DateTime(2024, 2, 28, 23, 59, 59), DateTime(2024, 3, 1, 0, 0, 0),
      DateTime(2024, 2, 26, 0, 0, 0), DateTime(2024, 4, 30, 0, 0, 0),
      DateTime(2024, 7, 1, 0, 0, 0),
      DateTime(2024, 2, 29, 12, 0, 0) }

TimeObjs ==
    { TimeObj(target_time, reference_time) :
         target_time \in Targets, reference_time \in References }

\* Month and quarter offsets reach over several years.
YearsOfMonths == { 12 * years + months : years \in Offsets, months \in -1..1 }

YearsOfQuarters ==
    { 4 * years + quarters : years \in Offsets, quarters \in -1..1 }

WindowsOver(offsets) ==
    { << start >> : start \in offsets }
    \cup { << start, end >> : start, end \in offsets }

NoCal ==
    [ op |-> "none", window |-> << 0 >>, week_start |-> << >>,
      res |-> FALSE, exc |-> "none" ]

Init ==
    /\ ctor \in CtorArgs
    /\ q = NewQuery(ctor[1], ctor[2], ctor[3])
    /\ decl = q
    /\ fromLog = <<>>
    /\ recSet = "None"
    /\ calls = 0
    /\ bexc = "none"
    /\ execs = [ s \in OneSlot |-> NoExec ]
    /\ last = NoResult
    /\ time_obj = NoTimeObj
    /\ cal = NoCal
    /\ disk = NoFile
    /\ tpath = NewTPath

\* A builder call seen from the executions in progress: they are marked, and
\* a generator walks the list object it took from start_paths, which from_
\* either extends in place or leaves behind for a new list.
AfterCall(e, newq, extended) ==
    [ e EXCEPT !.dirty = @ \/ Running(e),
               !.g.roots = IF Running(e) /\ extended
                              /\ e.g.roots = q.start_paths
                           THEN newq.start_paths ELSE @ ]

BuilderCall(r, extended) ==
    /\ calls < MaxCalls
    /\ calls' = calls + 1
    /\ q' = r.q
    /\ bexc' = r.exc
    /\ execs' = [ s \in Slots |-> AfterCall(execs[s], r.q, extended) ]
    /\ last' = NoResult
    /\ cal' = NoCal
    /\ UNCHANGED << ctor, time_obj, disk, tpath >>

\* The paths a from_ call that returned was given: the tail it left on
\* start_paths.
GivenPaths(paths, newq) ==
    SubSeq(newq.start_paths,
           Len(newq.start_paths)
             - Len(FlattenPaths(IF paths.isList THEN paths.items
                                ELSE << paths >>)) + 1,
           Len(newq.start_paths))

\* from_ extends the start_paths list in place unless it raises or finds the
\* one root that prints as "." in it.
Extends(b, r) ==
    /\ r.exc = "none"
    /\ ~IsDefaultRoot(IF b.start_paths = <<>> THEN << TPath(DefaultRoot(b)) >>
                      ELSE b.start_paths)

FromCalled(paths, r) ==
    /\ BuilderCall(r, Extends(q, r))
    /\ fromLog' = IF r.exc # "none" THEN fromLog
                  ELSE fromLog \o GivenPaths(paths, r.q)

CallFrom ==
    \E paths \in FromInputs :
       /\ FromCalled(paths, from_(q, paths))
       /\ decl' = from_(decl, paths).q
       /\ UNCHANGED recSet

CallWhere ==
    \E condition \in WhereInputs :
       /\ BuilderCall(where(q, condition), FALSE)
       /\ decl' = where(decl, condition).q
       /\ UNCHANGED << fromLog, recSet >>

CallRecursive ==
    \E flag \in BOOLEAN :
       /\ BuilderCall([ q |-> recursive(q, flag), exc |-> "none" ], FALSE)
       /\ decl' = recursive(decl, flag)
       /\ recSet' = IF flag THEN "True" ELSE "False"
       /\ UNCHANGED fromLog

CallDistinct ==
    /\ BuilderCall([ q |-> distinct(q), exc |-> "none" ], FALSE)
    /\ decl' = distinct(decl)
    /\ UNCHANGED << fromLog, recSet >>

\* An eagerly evaluated terminal call returns: r is the builder after it and
\* its result.
Returns(r) ==
    /\ q' = r.q
    /\ last' = r.res
    /\ bexc' = "none"
    /\ cal' = NoCal
    /\ UNCHANGED << ctor, time_obj, disk, tpath >>

Count ==
    \E coe \in BOOLEAN :
       Returns(count(q, coe)) /\ UNCHANGED << decl, fromLog, recSet, calls, execs >>

First ==
    \E coe \in BOOLEAN :
       Returns(first(q, coe)) /\ UNCHANGED << decl, fromLog, recSet, calls, execs >>

ExistsCall ==
    Returns(exists(q)) /\ UNCHANGED << decl, fromLog, recSet, calls, execs >>

Take ==
    \E limit \in 0..MaxLimit, key \in Keys, reverse, coe \in BOOLEAN :
       /\ key = "none" => reverse
       /\ Returns(take(q, limit, key, reverse, coe))
       /\ UNCHANGED << decl, fromLog, recSet, calls, execs >>

OrderBy ==
    \E key \in Keys, ascending, coe \in BOOLEAN :
       Returns(order_by(q, key, ascending, coe))
       /\ UNCHANGED << decl, fromLog, recSet, calls, execs >>

\* files(), iter() and paginate() return an iterator and do nothing else; the
\* variable it is assigned to lets go of the iterator it held.
Holds(s, e) ==
    /\ execs' = [ execs EXCEPT ![s] = e ]
    /\ last' = NoResult
    /\ bexc' = "none"
    /\ cal' = NoCal
    /\ UNCHANGED << ctor, time_obj, disk, tpath >>

StartFiles ==
    \E s \in Slots, coe \in BOOLEAN :
       Holds(s, NewExec("files", 0, FilesGen(coe), q))
       /\ UNCHANGED << q, decl, fromLog, recSet, calls >>

StartIter ==
    \E s \in Slots :
       Holds(s, NewExec("iter", 0, NewGen(TRUE, FALSE, q.distinct), q))
       /\ UNCHANGED << q, decl, fromLog, recSet, calls >>

StartSelect ==
    \E s \in Slots, coe \in BOOLEAN :
       Holds(s, [ NewExec("select", 0, SelectGen, q) EXCEPT !.fcoe = coe ])
       /\ UNCHANGED << q, decl, fromLog, recSet, calls >>

StartPaginate ==
    \E s \in Slots, page \in 1..MaxPage, coe \in BOOLEAN :
       Holds(s, NewExec("paginate", page, FilesGen(coe), q))
       /\ UNCHANGED << q, decl, fromLog, recSet, calls >>

\* next() on an iterator of files() or iter(): r is what it hands back.
Advanced(e, r) ==
    [ e EXCEPT !.g = r.g,
               !.cfg = IF e.g.phase = "new" THEN r.q ELSE @,
               !.out = IF r.y = NoPath THEN @ ELSE Append(@, r.y) ]

\* Iterators that keep one seen-set between them.
PulledWithSharedSeen(s, r, e) ==
    /\ q' = r.q
    /\ execs' = [ t \in Slots |->
                   IF t = s THEN e
                   ELSE [ execs[t] EXCEPT !.g.seen = e.g.seen ] ]
    /\ last' = NoResult
    /\ bexc' = "none"
    /\ cal' = NoCal
    /\ UNCHANGED << ctor, decl, fromLog, recSet, calls, time_obj, disk, tpath >>

Pulled(s, r, e) ==
    /\ q' = r.q
    /\ execs' = [ execs EXCEPT ![s] = e ]
    /\ last' = NoResult
    /\ bexc' = "none"
    /\ cal' = NoCal
    /\ UNCHANGED << ctor, decl, fromLog, recSet, calls, time_obj, disk, tpath >>

PullNext ==
    \E s \in Slots :
       /\ execs[s].kind \in { "files", "iter" }
       /\ execs[s].g.phase \in { "new", "run" }
       /\ Pulled(s, Next1(execs[s].g, q),
                 Advanced(execs[s], Next1(execs[s].g, q)))

PullSelect ==
    \E s \in Slots :
       /\ execs[s].kind = "select"
       /\ execs[s].g.phase \in { "new", "run" }
       /\ Pulled(s, SelectNext(execs[s].g, q, execs[s].fcoe),
                 Advanced(execs[s], SelectNext(execs[s].g, q, execs[s].fcoe)))

\* A window method of the Cal is called: r is what it returns or raises.
\* The method reads the time object and changes nothing, a Cal has no state
\* of its own: the call made first stands for a call made at any time.
Called(op, window, week_start, r) ==
    /\ calls = 0
    /\ calls' = calls + 1
    /\ cal' = [ op |-> op, window |-> window, week_start |-> week_start,
                res |-> r.res, exc |-> r.exc ]
    /\ last' = NoResult
    /\ bexc' = "none"

WinWeeks ==
    \E window \in Windows, week_start \in WeekStarts :
       Called("weeks", window, week_start,
              win_weeks(time_obj, window[1], EndOf(window), week_start))
       /\ UNCHANGED << ctor, q, decl, fromLog, recSet, execs, time_obj, disk, tpath >>

WinMinutes ==
    \E window \in Windows :
       Called("minutes", window, <<>>,
              win_minutes(time_obj, window[1], EndOf(window)))
       /\ UNCHANGED << ctor, q, decl, fromLog, recSet, execs, time_obj, disk, tpath >>

WinHours ==
    \E window \in Windows :
       Called("hours", window, <<>>,
              win_hours(time_obj, window[1], EndOf(window)))
       /\ UNCHANGED << ctor, q, decl, fromLog, recSet, execs, time_obj, disk, tpath >>

WinDays ==
    \E window \in Windows :
       Called("days", window, <<>>,
              win_days(time_obj, window[1], EndOf(window)))
       /\ UNCHANGED << ctor, q, decl, fromLog, recSet, execs, time_obj, disk, tpath >>

WinMonths ==
    \E window \in WindowsOver(YearsOfMonths) :
       Called("months", window, <<>>,
              win_months(time_obj, window[1], EndOf(window)))
       /\ UNCHANGED << ctor, q, decl, fromLog, recSet, execs, time_obj, disk, tpath >>

WinQuarters ==
    \E window \in WindowsOver(YearsOfQuarters) :
       Called("quarters", window, <<>>,
              win_quarters(time_obj, window[1], EndOf(window)))
       /\ UNCHANGED << ctor, q, decl, fromLog, recSet, execs, time_obj, disk, tpath >>

WinYears ==
    \E window \in Windows :
       Called("years", window, <<>>,
              win_years(time_obj, window[1], EndOf(window)))
       /\ UNCHANGED << ctor, q, decl, fromLog, recSet, execs, time_obj, disk, tpath >>

\* A page that asks the iterator for one element more than it keeps.
NextPageGreedy(g, b, page_size) ==
    LET r == Pull(g, b, page_size + 1, <<>>)
    IN  [ r EXCEPT !.out = FirstOf(@, page_size) ]

\* page = list(itertools.islice(iterator, page_size))
NextPage(g, b, page_size) == Pull(g, b, page_size, <<>>)

\* next() on the iterator of paginate(): an empty page ends it, an exception
\* of the iterator is not caught.  r is what the page took from the iterator.
Paged(e, r) ==
    [ e EXCEPT !.g = r.g,
               !.cfg = IF e.pphase = "new" THEN r.q ELSE @,
               !.pphase = IF r.g.phase = "raised" THEN "raised"
                          ELSE IF r.out = <<>> THEN "done"
                          ELSE "run",
               !.pages = IF r.g.phase = "raised" \/ r.out = <<>> THEN @
                         ELSE Append(@, r.out) ]

PullPage ==
    \E s \in Slots :
       /\ execs[s].kind = "paginate"
       /\ execs[s].pphase \in { "new", "run" }
       /\ Pulled(s, NextPage(execs[s].g, q, execs[s].page),
                 Paged(execs[s], NextPage(execs[s].g, q, execs[s].page)))

\* The builder and the terminal methods that return a value.
Next ==
    \/ CallFrom
    \/ CallWhere
    \/ CallRecursive
    \/ CallDistinct
    \/ Count
    \/ First
    \/ ExistsCall

Spec == Init /\ [][Next]_vars

\* The specifications below keep the calls their properties are about.

\* where() and the executions that apply the predicates.
NextWhere ==
    \/ CallWhere
    \/ Count
    \/ StartFiles
    \/ PullNext

SpecWhere == Init /\ [][NextWhere]_vars

\* from_(), recursive(), distinct() and the traversal.
NextWalk ==
    \/ CallFrom
    \/ CallRecursive
    \/ CallDistinct
    \/ StartFiles
    \/ StartIter
    \/ PullNext

SpecWalk == Init /\ [][NextWalk]_vars

\* take() and order_by().
NextTake ==
    \/ CallWhere
    \/ Take
    \/ OrderBy

SpecTake == Init /\ [][NextTake]_vars

\* paginate().
NextPages ==
    \/ CallWhere
    \/ CallRecursive
    \/ CallDistinct
    \/ StartPaginate
    \/ PullPage

SpecPages == Init /\ [][NextPages]_vars

\* where(), recursive(), distinct() and the iterators.
NextLazy ==
    \/ CallWhere
    \/ CallRecursive
    \/ CallDistinct
    \/ StartFiles
    \/ StartSelect
    \/ StartIter
    \/ StartPaginate
    \/ PullNext
    \/ PullSelect
    \/ PullPage

SpecLazy == Init /\ [][NextLazy]_vars

\* The calls that can be malformed: from_(), where() and win_weeks().
NextConfig ==
    \/ CallFrom
    \/ CallWhere
    \/ WinWeeks

SpecConfig == Init /\ [][NextConfig]_vars

\* Chronos objects and the window methods of their Cal.
InitCal ==
    /\ ctor = << NoPath, "None", "None" >>
    /\ q = NewQuery(ctor[1], ctor[2], ctor[3])
    /\ decl = q
    /\ fromLog = <<>>
    /\ recSet = "None"
    /\ calls = 0
    /\ bexc = "none"
    /\ execs = [ s \in OneSlot |-> NoExec ]
    /\ last = NoResult
    /\ time_obj \in TimeObjs
    /\ cal = NoCal
    /\ disk = NoFile
    /\ tpath = NewTPath

NextCal ==
    \/ WinMinutes
    \/ WinHours
    \/ WinDays
    \/ WinWeeks
    \/ WinMonths
    \/ WinQuarters
    \/ WinYears

SpecCal == InitCal /\ [][NextCal]_vars

\* The file and one TPath instance naming it.
InitStat ==
    /\ ctor = << NoPath, "None", "None" >>
    /\ q = NewQuery(ctor[1], ctor[2], ctor[3])
    /\ decl = q
    /\ fromLog = <<>>
    /\ recSet = "None"
    /\ calls = 0
    /\ bexc = "none"
    /\ execs = [ s \in OneSlot |-> NoExec ]
    /\ last = NoResult
    /\ time_obj = NoTimeObj
    /\ cal = NoCal
    /\ disk \in { NoFile, [ present |-> TRUE, version |-> 1 ] }
    /\ tpath = NewTPath

\* Something outside the program changes the file.
Outside(file) ==
    /\ disk' = file
    /\ UNCHANGED << ctor, q, decl, fromLog, recSet, calls, bexc, execs, last,
                    time_obj, cal, tpath >>

\* The file is written to or touched.
Modify ==
    /\ disk.present
    /\ disk.version < MaxVersion
    /\ Outside([ disk EXCEPT !.version = @ + 1 ])

\* The file is deleted.
Delete ==
    /\ disk.present
    /\ Outside([ disk EXCEPT !.present = FALSE ])

\* The file is created.
Create ==
    /\ ~disk.present
    /\ disk.version < MaxVersion
    /\ Outside([ present |-> TRUE, version |-> disk.version + 1 ])

\* A call on the instance returns.
Read(op, r) ==
    /\ Len(tpath.reads) < MaxReads
    /\ tpath' = [ r.self EXCEPT !.reads =
                    Append(@, [ op |-> op, exc |-> r.res.exc, st |-> r.res.st ]) ]
    /\ UNCHANGED << ctor, q, decl, fromLog, recSet, calls, bexc, execs, last >>

\* tpath.stat()
Stat ==
    Read("stat", stat(tpath, disk, TRUE))
    /\ UNCHANGED << time_obj, cal, disk >>

\* tpath.stat(follow_symlinks=False)
StatNoFollow ==
    Read("lstat", stat(tpath, disk, FALSE))
    /\ UNCHANGED << time_obj, cal, disk >>

\* tpath.mtime.timestamp
Timestamp ==
    Read("timestamp", timestamp(tpath, disk))
    /\ UNCHANGED << time_obj, cal, disk >>

NextStat ==
    \/ Modify
    \/ Delete
    \/ Create
    \/ Stat
    \/ StatNoFollow
    \/ Timestamp

SpecStat == InitStat /\ [][NextStat]_vars

\* Two iterators of one builder, pulled in any interleaving.
InitTwo ==
    /\ ctor \in CtorArgs
    /\ q = NewQuery(ctor[1], ctor[2], ctor[3])
    /\ decl = q
    /\ fromLog = <<>>
    /\ recSet = "None"
    /\ calls = 0
    /\ bexc = "none"
    /\ execs = [ s \in TwoSlots |-> NoExec ]
    /\ last = NoResult
    /\ time_obj = NoTimeObj
    /\ cal = NoCal
    /\ disk = NoFile
    /\ tpath = NewTPath

NextTwo ==
    \/ CallDistinct
    \/ StartFiles
    \/ StartIter
    \/ PullNext

SpecTwo == InitTwo /\ [][NextTwo]_vars

\* ------------------------------------------------------------- properties
Range(s) == { s[i] : i \in 1..Len(s) }

IsPrefix(s, t) == Len(s) <= Len(t) /\ SubSeq(t, 1, Len(s)) = s

IsSuffix(s, t) ==
    Len(s) <= Len(t) /\ SubSeq(t, Len(t) - Len(s) + 1, Len(t)) = s

RECURSIVE Concat(_)
Concat(seqs) == IF seqs = <<>> THEN <<>> ELSE Head(seqs) \o Concat(Tail(seqs))

\* The executions of the state that walked all their roots and did not raise,
\* on a builder that is still as they left it: what the traversal yielded
\* (out), the files the predicates were asked about (evald), the builder
\* (cfg), continue_on_exc (coe) and the errors recorded (errors).
Completed ==
    { [ cfg |-> q, out |-> last.pulled, evald |-> last.evald,
        coe |-> last.coe, errors |-> last.errors ] :
        x \in IF /\ last.exc = "none"
                 /\ \/ last.op \in { "count", "order_by" }
                    \/ last.op = "take" /\ last.key # "none" /\ last.n > 0
              THEN { 1 } ELSE {} }
    \cup
    { [ cfg |-> execs[s].cfg,
        out |-> IF execs[s].kind = "paginate" THEN Concat(execs[s].pages)
                ELSE execs[s].out,
        evald |-> execs[s].g.evald,
        coe |-> execs[s].g.coe, errors |-> execs[s].g.errors ] :
        s \in { t \in Slots : /\ execs[t].kind # "none"
                              /\ execs[t].g.phase = "done"
                              /\ ~execs[t].dirty
                              /\ execs[t].cfg = q } }

\* Every predicate of the list answers True for the path.
AllTrue(funcs, p) == \A i \in 1..Len(funcs) : Call(funcs[i], p) = "T"

C2_PredicateExceptionsAreSkipped ==
    (last.op \in { "count", "first" } /\ last.coe) => last.exc = "none"

\* C3: on a builder made without from_, the roots after the from_() calls
\* are the paths those calls were given, in order.
C3_FromAppendsAfterFirstCall ==
    (q.init_from = NoPath /\ fromLog # <<>>) => q.start_paths = fromLog

\* C4: count() returns what it returns on a builder with the same
\* constructor arguments and builder calls on which no terminal method was
\* run before.
C4_ResultDependsOnDeclaredConfiguration ==
    last.op = "count" =>
        LET unrun == count(decl, last.coe).res
        IN  last.pulled = unrun.pulled /\ last.exc = unrun.exc

\* p lies below the directory dir.
IsBelow(dir, p) == Len(p) > Len(dir) /\ SubSeq(p, 1, Len(dir)) = dir

Parent(p) == SubSeq(p, 1, Len(p) - 1)

\* The regular files below a directory, and those directly in it.
FilesBelow(dir) == { f \in FilePaths : IsBelow(dir, f) }

FilesIn(dir) == { f \in FilesBelow(dir) : Parent(f) = dir }

\* Nothing below the directory is out of reach.
FaultFree(dir) ==
    \A p \in Vanished \cup Unlistable \cup Unexaminable : ~IsBelow(dir, p)

\* One root, a directory whose tree is within reach, and predicates that
\* return True for every file of the tree.
WholeTreeMatches(cfg) ==
    /\ Len(cfg.start_paths) = 1
    /\ cfg.start_paths[1] \in DirPaths
    /\ FaultFree(cfg.start_paths[1])
    /\ \A f \in FilesBelow(cfg.start_paths[1]) : AllTrue(cfg.query_func, f)

\* C5: on such a root, with N files directly in it and M in its
\* subdirectories, a recursive execution yields N + M paths, every file of
\* the tree once, and a non-recursive execution the N files in the root.
C5_TraversalIsComplete ==
    \A e \in Completed :
       WholeTreeMatches(e.cfg) =>
          LET root == e.cfg.start_paths[1]
              N == Cardinality(FilesIn(root))
              M == Cardinality(FilesBelow(root) \ FilesIn(root))
          IN  IF e.cfg.is_recursive
              THEN Len(e.out) = N + M /\ Range(e.out) = FilesBelow(root)
              ELSE Len(e.out) = N /\ Range(e.out) = FilesIn(root)

\* A recursive execution with the predicate lambda p: True finished on a root
\* that has files of its own and files in subdirectories.
C5_Witness ==
    \E e \in Completed :
       /\ WholeTreeMatches(e.cfg)
       /\ e.cfg.is_recursive
       /\ e.cfg.query_func = << "pTrue" >>
       /\ FilesIn(e.cfg.start_paths[1]) # {}
       /\ FilesBelow(e.cfg.start_paths[1]) # FilesIn(e.cfg.start_paths[1])
       /\ e.out # <<>>

\* A sequence without the elements that repeat an earlier one.
FirstOccurrences(s) ==
    LET fresh == { i \in 1..Len(s) : \A j \in 1..(i - 1) : s[j] # s[i] }
        RECURSIVE Pick(_)
        Pick(i) == IF i > Len(s) THEN <<>>
                   ELSE (IF i \in fresh THEN << s[i] >> ELSE <<>>)
                        \o Pick(i + 1)
    IN  Pick(1)

\* The iterators of files() and iter() that have started, on a builder no
\* call has touched since.
Started ==
    { s \in Slots : /\ execs[s].kind \in { "files", "iter" }
                    /\ execs[s].g.phase # "new"
                    /\ ~execs[s].dirty }

\* What the execution of an iterator yields when distinct is off.
Undistinct(e) == Pull(NewGen(e.g.coe, FALSE, FALSE), e.cfg, -1, <<>>).out

\* C6: with distinct on, what an iterator has yielded so far is the start of
\* the output of the same execution without distinct with the repeated paths
\* taken out, and all of it once the iterator has ended.
C6_DistinctKeepsFirstOccurrences ==
    \A s \in Started :
       LET e == execs[s]
       IN  e.g.don =>
              /\ IsPrefix(e.out, FirstOccurrences(Undistinct(e)))
              /\ e.g.phase \in { "done", "raised" } =>
                    e.out = FirstOccurrences(Undistinct(e))

\* An iterator with distinct on has ended, and without distinct its roots
\* reach a file twice.
C6_Witness ==
    \E s \in Started :
       /\ execs[s].g.don
       /\ execs[s].g.phase = "done"
       /\ execs[s].out # <<>>
       /\ Len(execs[s].out) < Len(Undistinct(execs[s]))

\* C7: take(k, key, reverse) returns the first k elements of what
\* order_by(key, ascending = not reverse) returns on the same builder.
C7_TakeAgreesWithOrderBy ==
    (last.op = "take" /\ last.key # "none") =>
        LET full == order_by(q, last.key, ~last.rev, last.coe).res
        IN  full.exc = "none" =>
               /\ last.exc = "none"
               /\ last.out = FirstOf(full.out, last.n)

\* take() with a key cut the matches between two of equal key.
C7_Witness ==
    /\ last.op = "take"
    /\ last.key = "size"
    /\ last.n >= 1
    /\ Len(last.out) = last.n
    /\ \E p \in Range(last.pulled) \ Range(last.out) :
          SizeOf(p) = SizeOf(last.out[last.n])

\* C8: the pages paginate() has yielded are, one after the other, the start
\* of what files() yields; none is empty or longer than page_size and all
\* but the last are full; when paginate() has ended they are all of what
\* files() yields, and the traversal has evaluated the entries and listed
\* the directories that one files() run evaluates and lists.
C8_PaginationIsExhaustive ==
    \A s \in Slots :
       LET e == execs[s]
           whole == Pull(FilesGen(e.g.coe), e.cfg, -1, <<>>)
           n == Len(e.pages)
       IN  (e.kind = "paginate" /\ ~e.dirty /\ e.pphase \in { "run", "done" })
           => /\ \A i \in 1..n : Len(e.pages[i]) \in 1..e.page
              /\ \A i \in 1..(n - 1) : Len(e.pages[i]) = e.page
              /\ IsPrefix(Concat(e.pages), whole.out)
              /\ e.pphase = "done" =>
                    /\ Concat(e.pages) = whole.out
                    /\ e.g.evald = whole.g.evald
                    /\ e.g.listed = whole.g.listed

\* paginate() has ended after more than one page, the last one not full.
C8_Witness ==
    \E s \in Slots :
       /\ execs[s].kind = "paginate"
       /\ execs[s].pphase = "done"
       /\ Len(execs[s].pages) >= 2
       /\ Len(execs[s].pages[Len(execs[s].pages)]) < execs[s].page

\* No root is another root or lies below one.
NoNestedRoots(roots) ==
    \A i, j \in 1..Len(roots) :
       i # j => roots[i] # roots[j] /\ ~IsBelow(roots[i], roots[j])

\* C9: of two paths an iterator yielded, the later one is not a direct entry
\* of a listed directory in whose subdirectories the earlier one lies.
C9_FilesBeforeSubdirectories ==
    \A s \in Started :
       LET e == execs[s]
       IN  NoNestedRoots(e.g.roots) =>
              \A i, j \in 1..Len(e.out) :
                 (i < j /\ Parent(e.out[j]) \in Range(e.g.listed))
                 => ~IsBelow(Parent(e.out[j]), Parent(e.out[i]))

\* An iterator has yielded a direct file of a directory and, after it, a
\* file from a subdirectory of that directory.
C9_Witness ==
    \E s \in Started :
       /\ NoNestedRoots(execs[s].g.roots)
       /\ \E i, j \in 1..Len(execs[s].out) :
             /\ i < j
             /\ Parent(execs[s].out[i]) \in Range(execs[s].g.listed)
             /\ IsBelow(Parent(execs[s].out[i]), Parent(execs[s].out[j]))

\* C10: a terminal method called with continue_on_exc=False that met an
\* access error raised it.
C10_FailFastPropagates ==
    (last.op # "none" /\ ~last.coe /\ last.errors > 0)
    => last.exc = "OSError"

\* The directories from root down to the one that holds p.
Between(root, p) ==
    { d \in DirPaths : (d = root \/ IsBelow(root, d)) /\ IsBelow(d, p) }

\* The entries the file system lets a traversal of the builder's roots come
\* to: below a root that is a directory, directly in it when the traversal
\* is not recursive, with every directory on the way listable and, as an
\* entry, examinable.
Reached(cfg) ==
    { p \in FilePaths \cup DirPaths \cup LinkPaths :
        \E i \in 1..Len(cfg.start_paths) :
           LET root == cfg.start_paths[i]
           IN  /\ IsDir(root)
               /\ IsBelow(root, p)
               /\ cfg.is_recursive \/ Parent(p) = root
               /\ \A d \in Between(root, p) :
                     d \notin Unlistable /\ (d # root => d \notin Unexaminable) }

\* The files among them, and the roots that are files.
Candidates(cfg) ==
    { p \in Reached(cfg) : p \in FilePaths \ Unexaminable }
    \cup { p \in Range(cfg.start_paths) : Exists(p) /\ ~IsDir(p) }

\* The entries and directories an access error is local to: an entry that
\* cannot be examined, a file the predicates cannot stat, a directory that
\* cannot be listed.
Offending(cfg) ==
    { p \in Reached(cfg) : p \in Unexaminable }
    \cup { p \in Candidates(cfg) : matches_query(cfg.query_func, p) = "OSError" }
    \cup { d \in (Reached(cfg) \ Unexaminable) \cup Range(cfg.start_paths) :
             d \in Unlistable /\ (cfg.is_recursive \/ d \in Range(cfg.start_paths)) }

MatchesOf(cfg) ==
    { p \in Candidates(cfg) : AllTrue(cfg.query_func, p) }

\* The call res stopped at the match m: m is the last path the predicates
\* were asked about and the only one they accepted, the directory m was
\* found in is the last one listed, and a whole traversal asks and lists
\* the same and then goes on.
StoppedAt(res, m, whole) ==
    /\ res.evald # <<>>
    /\ res.evald[Len(res.evald)] = m
    /\ \A i \in 1..(Len(res.evald) - 1) : ~AllTrue(q.query_func, res.evald[i])
    /\ IsPrefix(res.evald, whole.g.evald)
    /\ IsPrefix(res.listed, whole.g.listed)
    /\ m \notin Range(q.start_paths) =>
          res.listed # <<>> /\ res.listed[Len(res.listed)] = Parent(m)

\* C12: first() returns the first element files() yields and stops the
\* traversal there; it returns None after a whole traversal when files()
\* yields nothing, and raises what files() raises before its first element.
\* exists() returns True when some file within reach satisfies the
\* predicates, and has then stopped at the first one; it returns False after
\* a whole traversal when none does.
C12_FirstAndExistsShortCircuit ==
    /\ last.op = "first" =>
          LET whole == Pull(FilesGen(last.coe), q, -1, <<>>)
          IN  IF whole.out # <<>>
              THEN /\ last.exc = "none"
                   /\ last.out = << whole.out[1] >>
                   /\ StoppedAt(last, whole.out[1], whole)
              ELSE /\ last.out = <<>>
                   /\ last.exc = whole.g.exc
                   /\ last.evald = whole.g.evald
                   /\ last.listed = whole.g.listed
    /\ last.op = "exists" =>
          LET whole == Pull(FilesGen(TRUE), q, -1, <<>>)
          IN  IF last.exc # "none"
              THEN whole.out = <<>> /\ whole.g.exc = last.exc
              ELSE /\ last.val = 1 <=> MatchesOf(q) # {}
                   /\ last.val = 1 => StoppedAt(last, last.pulled[1], whole)
                   /\ last.val = 0 => /\ last.evald = whole.g.evald
                                      /\ last.listed = whole.g.listed

\* first() returned a file after the predicates had turned another one
\* down, and a whole traversal would have gone on to further files.
C12_Witness ==
    /\ last.op = "first"
    /\ last.out # <<>>
    /\ Len(last.evald) >= 2
    /\ Len(last.evald) < Len(Pull(FilesGen(last.coe), q, -1, <<>>).g.evald)

\* The executions of files() and iter() that walked all their roots after
\* the builder calls made so far.
Finished ==
    { s \in Slots : /\ execs[s].kind \in { "files", "iter" }
                    /\ execs[s].g.phase = "done"
                    /\ ~execs[s].dirty
                    /\ execs[s].cfg = q }

\* PQuery(from_, recursive=r, where) on which the from_(), where() and
\* distinct() calls made so far were made and recursive() never was.
ConstructedWith(r) ==
    [ decl EXCEPT !.init_recursive = r, !.is_recursive = TRUE ]

\* C13: once recursive(r) was called, wherever among the other builder
\* calls, an execution runs with r, whatever the constructor was given: it
\* yields what the execution of a builder constructed with recursive=r
\* yields, and with r False only matches that lie directly in a root.
C13_RecursiveCallWins ==
    recSet # "None" =>
       \A s \in Finished :
          LET e == execs[s]
              twin == Pull(NewGen(e.g.coe, FALSE, e.g.don),
                           ConstructedWith(recSet), -1, <<>>)
          IN  /\ e.cfg.is_recursive = (recSet = "True")
              /\ e.out = twin.out
              /\ e.g.listed = twin.g.listed
              /\ recSet = "False" =>
                    \A i \in 1..Len(e.out) :
                       \/ e.out[i] \in Range(e.cfg.start_paths)
                       \/ Parent(e.out[i]) \in Range(e.cfg.start_paths)

\* On PQuery(from_="d", recursive=True, where=...) recursive(False) and
\* another builder call were made, and an execution yielded the one match in
\* d itself and none of those below it.
C13_Witness ==
    \E s \in Finished :
       /\ q.init_where = "pBig"
       /\ recSet = "False"
       /\ calls = 2
       /\ q.distinct
       /\ execs[s].out = << <<"d", "a">> >>

\* A generator that has asked nothing of the file system.
Untouched(g) ==
    /\ g.roots = <<>> /\ g.ri = 0
    /\ g.listed = <<>> /\ g.evald = <<>> /\ g.errors = 0

\* An iterator nobody has asked for an element has asked nothing of the
\* file system.
LazyUntilPulled ==
    \A s \in Slots : execs[s].g.phase = "new" => Untouched(execs[s].g)

\* The step asks an iterator for its first element.
FirstPull ==
    \E s \in Slots : execs[s].g.phase = "new" /\ execs'[s].g.phase # "new"

\* The builder changes only in a builder call and when an iterator is asked
\* for its first element, and the roots only in the latter.
DefaultsOnlyAtFirstPull ==
    /\ q' # q => calls' = calls + 1 \/ FirstPull
    /\ q'.start_paths # q.start_paths => FirstPull

\* The root and the recursion the constructor was given.
CtorRoot == IF ctor[1] = NoPath THEN <<>> ELSE ctor[1]

CtorRecursion == IF ctor[2] = "None" THEN TRUE ELSE ctor[2] = "True"

\* The recursion in force: that of the latest recursive() call, else the
\* constructor's.
LatestRecursion == IF recSet = "None" THEN CtorRecursion ELSE recSet = "True"

\* What the first element asked of an iterator leaves in the builder.
AppliedAtFirstPull(rec) ==
    FirstPull => q'.start_paths = << CtorRoot >> /\ q'.is_recursive = rec

ZeroPaths(paths) ==
    /\ paths.isList
    /\ \A i \in 1..Len(paths.items) :
          paths.items[i].isList /\ paths.items[i].items = <<>>

\* A where() argument that is, or holds, something that is no callable of
\* exactly one positional argument.
Malformed(condition) ==
    IF condition.isIter
    THEN \E i \in 1..Len(condition.conds) :
            condition.conds[i] \in { "twoArgs", "notCallable" }
    ELSE condition.cond \in { "twoArgs", "notCallable" }

\* The week_start values of the model that the documentation accepts:
\* 'monday', 'TUE', 'we', 'w-thu', 'Friday', ' sa ', 'W-SUN'.
Recognized ==
    { << "m", "o", "n", "d", "a", "y" >>, << "T", "U", "E" >>,
      << "w", "e" >>, << "w", "-", "t", "h", "u" >>,
      << "F", "r", "i", "d", "a", "y" >>, << " ", "s", "a", " " >>,
      << "W", "-", "S", "U", "N" >> }

\* C15: on the builder as it is, from_() raises ValueError exactly when it
\* is given no path and where() raises TypeError exactly when it is given
\* something malformed; win_weeks() raised ValueError exactly when its
\* week_start is not recognized, whatever its offsets; and the builder keeps
\* nothing a terminal method could fail on later: every predicate it holds
\* is a callable of one argument.
C15_ConfigurationErrorsAreImmediate ==
    /\ \A paths \in FromInputs :
          from_(q, paths).exc = IF ZeroPaths(paths) THEN "ValueError" ELSE "none"
    /\ \A condition \in WhereInputs :
          where(q, condition).exc =
             IF Malformed(condition) THEN "TypeError" ELSE "none"
    /\ cal.op = "weeks" =>
          cal.exc = IF cal.week_start \in Recognized THEN "none"
                    ELSE "ValueError"
    /\ bexc \in { "none", "ValueError", "TypeError" }
    /\ \A i \in 1..Len(q.query_func) : q.query_func[i] \in Callable1

\* win_weeks() raised ValueError for the week_start 'w-w-mon' in a call whose
\* offsets were given in descending order.
C15_Witness ==
    /\ cal.op = "weeks"
    /\ cal.exc = "ValueError"
    /\ cal.week_start = << "w", "-", "w", "-", "m", "o", "n" >>
    /\ Len(cal.window) = 2
    /\ cal.window[1] > cal.window[2]

\* The roots of the builder that exist.
ExistingRoots(b) == SelectSeq(b.start_paths, Exists)

\* Every root of the builder is missing or an empty directory.
NothingThere(b) ==
    /\ b.start_paths # <<>>
    /\ \A i \in 1..Len(b.start_paths) :
          \/ ~Exists(b.start_paths[i])
          \/ IsDir(b.start_paths[i]) /\ ScanNames(b.start_paths[i]) = <<>>

\* A terminal call that found nothing and met no error.
FoundNothing(res) ==
    /\ res.exc = "none" /\ res.errors = 0
    /\ res.pulled = <<>> /\ res.out = <<>> /\ res.val = 0

\* C16: count() returns what it returns on the builder without the roots
\* that do not exist: same matches in the same order, same errors, raising
\* or not alike; and on a builder whose roots are all missing or empty
\* count() returns 0, first() None, exists() False, take() and order_by()
\* the empty list, the first page asked of paginate() is its end, and none
\* of them meets an error, fail-fast or not.
C16_MissingRootsAreSkipped ==
    /\ (last.op = "count" /\ ExistingRoots(q) # <<>>) =>
          LET others ==
                 count([ q EXCEPT !.start_paths = ExistingRoots(q) ],
                       last.coe).res
          IN  /\ last.pulled = others.pulled
              /\ last.exc = others.exc
              /\ last.errors = others.errors
    /\ NothingThere(q) =>
          /\ last.op \in { "count", "first", "exists" } => FoundNothing(last)
          /\ \A coe \in BOOLEAN :
                /\ FoundNothing(count(q, coe).res)
                /\ FoundNothing(first(q, coe).res)
                /\ FoundNothing(exists(q).res)
                /\ \A key \in Keys, reverse \in BOOLEAN :
                      /\ FoundNothing(order_by(q, key, reverse, coe).res)
                      /\ \A limit \in 0..MaxLimit :
                            FoundNothing(take(q, limit, key, reverse, coe).res)
                /\ \A page \in 1..MaxPage :
                      /\ NextPage(FilesGen(coe), q, page).out = <<>>
                      /\ NextPage(FilesGen(coe), q, page).g.phase = "done"
                      /\ NextPage(FilesGen(coe), q, page).g.errors = 0

\* count() returned 0 on the roots n, which does not exist, and o, an empty
\* directory that it listed after passing n over.
C16_Witness ==
    /\ last.op = "count"
    /\ q.start_paths = << <<"n">>, <<"o">> >>
    /\ last.listed = << <<"o">> >>
    /\ last.val = 0
    /\ last.exc = "none"

\* C17: on a builder constructed with a predicate and on which where() has
\* added predicates, count() counts the files the traversal reached that
\* satisfy the predicates where() added, whatever the constructor's
\* predicate says of them.
C17_FluentWhereOverridesConstructor ==
    (/\ last.op = "count"
     /\ last.exc = "none"
     /\ ctor[3] # "None"
     /\ decl.query_func # <<>>)
    => Range(last.pulled) =
          { p \in Range(last.evald) : AllTrue(decl.query_func, p) }

\* Every path a terminal method has handed out so far.
Yielded ==
    Range(last.pulled)
    \cup UNION { Range(execs[s].out) :
                    s \in { t \in Slots : execs[t].kind \in { "files", "iter" } } }
    \cup UNION { Range(Concat(execs[s].pages)) :
                    s \in { t \in Slots : execs[t].kind = "paginate" } }

WindowCall(op, t, window, week_start) ==
    CASE op = "minutes" -> win_minutes(t, window[1], EndOf(window))
      [] op = "hours" -> win_hours(t, window[1], EndOf(window))
      [] op = "days" -> win_days(t, window[1], EndOf(window))
      [] op = "weeks" -> win_weeks(t, window[1], EndOf(window), week_start)
      [] op = "months" -> win_months(t, window[1], EndOf(window))
      [] op = "quarters" -> win_quarters(t, window[1], EndOf(window))
      [] op = "years" -> win_years(t, window[1], EndOf(window))

\* C19: a window call with (start = a, end = b) returns what the same
\* method of the same Cal returns with (start = b, end = a), raising
\* included, for minutes, hours, days, weeks, months, quarters and years.
C19_WindowIsOrderIndependent ==
    (cal.op # "none" /\ Len(cal.window) = 2)
    => WindowCall(cal.op, time_obj, << cal.window[2], cal.window[1] >>,
                  cal.week_start)
          = [ res |-> cal.res, exc |-> cal.exc ]

\* A call with start after end that found the target in its window: a
\* target in the week after the reference's, asked as (1, -1) on Sunday
\* weeks.
C19_Witness ==
    /\ cal.op = "weeks"
    /\ cal.window = << 1, -1 >>
    /\ cal.week_start = << "W", "-", "S", "U", "N" >>
    /\ cal.exc = "none"
    /\ cal.res
    /\ time_obj = TimeObj(DateTime(2025, 1, 5, 23, 59, 59),
                          DateTime(2024, 12, 31, 23, 59, 30))

\* The linear index of the reference, in months and in quarters.
RefMonthIndex == MonthIndex(time_obj.base_time.year, time_obj.base_time.month)

RefQuarterIndex ==
    QuarterIndex(time_obj.base_time.year, QuarterOf(time_obj.base_time))

\* The loops leave a unit in 1..per whose linear index is the reference's
\* plus the offset.
CarriedTo(at, per, index) == at.unit \in 1..per /\ at.year * per + at.unit = index

\* C20: the month (quarter) the loops of win_months (win_quarters) end on is
\* in 1..12 (1..4) and its index year*12+month (year*4+quarter) is the
\* reference's index plus the offset; the call is true exactly when the
\* target's index lies between the reference's index plus the smaller and
\* plus the larger offset; on a January reference win_months(-1) is true
\* exactly of the targets in December of the year before.
C20_MonthsAndQuartersCarryAcrossYears ==
    /\ cal.op = "months" =>
          /\ cal.exc = "none"
          /\ \A offset \in Range(cal.window) :
                CarriedTo(MonthAt(time_obj.base_time, offset), 12,
                          RefMonthIndex + offset)
          /\ cal.res =
                Within(RefMonthIndex + Earlier(cal.window[1], EndOf(cal.window)),
                       MonthIndex(time_obj.datetime.year,
                                  time_obj.datetime.month),
                       RefMonthIndex + Later(cal.window[1], EndOf(cal.window)))
          /\ (time_obj.base_time.month = 1 /\ cal.window = << -1 >>) =>
                cal.res = (/\ time_obj.datetime.month = 12
                           /\ time_obj.datetime.year
                                 = time_obj.base_time.year - 1)
    /\ cal.op = "quarters" =>
          /\ cal.exc = "none"
          /\ \A offset \in Range(cal.window) :
                CarriedTo(QuarterAt(time_obj.base_time, offset), 4,
                          RefQuarterIndex + offset)
          /\ cal.res =
                Within(RefQuarterIndex
                          + Earlier(cal.window[1], EndOf(cal.window)),
                       QuarterIndex(time_obj.datetime.year,
                                    QuarterOf(time_obj.datetime)),
                       RefQuarterIndex
                          + Later(cal.window[1], EndOf(cal.window)))

\* win_months(-25, -13) on a reference in January 2024 holds of a target in
\* December 2021: the borrow loop ran three times.
C20_Witness ==
    /\ cal.op = "months"
    /\ cal.window = << -13, -25 >>
    /\ cal.res
    /\ time_obj = TimeObj(DateTime(2021, 12, 15, 8, 0, 0),
                          DateTime(2024, 1, 15, 10, 30, 15))

\* The ordinal of the latest date on or before the reference date whose
\* weekday is day (0 for Monday): the start of the reference's week.
WeekStartOrdinal(day) ==
    CHOOSE w \in (ToOrdinal(time_obj.base_time) - 6)..ToOrdinal(time_obj.base_time) :
       (w + 6) % 7 = day

\* The smaller and the larger offset of the call made.
MinOffset == IF cal.window[1] <= EndOf(cal.window)
             THEN cal.window[1] ELSE EndOf(cal.window)

MaxOffsetOf == IF cal.window[1] <= EndOf(cal.window)
               THEN EndOf(cal.window) ELSE cal.window[1]

\* C21: win_weeks(s, e, week_start) with a recognized week_start is true
\* exactly when the target date lies between W + 7*min(s, e) days and
\* W + 7*max(s, e) + 6 days, W being the latest date on or before the
\* reference date that falls on the week start day.
C21_WeekWindowsHonourWeekStart ==
    (cal.op = "weeks" /\ cal.exc = "none") =>
       \E day \in 0..6 :
          /\ Strip(Lower(cal.week_start)) \in
                DaySpellings(day)
                \cup { << "w", "-" >> \o spelling : spelling \in DaySpellings(day) }
          /\ cal.res =
                (/\ WeekStartOrdinal(day) + 7 * MinOffset
                      <= ToOrdinal(time_obj.datetime)
                 /\ ToOrdinal(time_obj.datetime)
                      <= WeekStartOrdinal(day) + 7 * MaxOffsetOf + 6)

\* On Sunday weeks the Sunday after a Tuesday reference is in the next week
\* (on Monday weeks it is the last day of the reference's week).
C21_Witness ==
    /\ cal.op = "weeks"
    /\ cal.window = << 1 >>
    /\ cal.week_start = << "W", "-", "S", "U", "N" >>
    /\ cal.res
    /\ time_obj = TimeObj(DateTime(2025, 1, 5, 23, 59, 59),
                          DateTime(2024, 12, 31, 23, 59, 30))

\* The seconds from the start of the reference's minute (unit = 60) or hour
\* (unit = 3600) to the target.
SecondsAfterTrunc(unit) ==
    (ToOrdinal(time_obj.datetime) - ToOrdinal(time_obj.base_time)) * 86400
    + SecondOfDay(time_obj.datetime)
    - (SecondOfDay(time_obj.base_time) \div unit) * unit

HalfOpen(unit) ==
    /\ cal.exc = "none"
    /\ cal.res = (/\ unit * MinOffset <= SecondsAfterTrunc(unit)
                  /\ SecondsAfterTrunc(unit) < unit * (MaxOffsetOf + 1))

\* C22: win_minutes(s, e) (win_hours) is true exactly when the target is at
\* or after the start of the reference's minute (hour) plus min(s, e) units
\* and before that start plus max(s, e) + 1 units.
C22_MinuteAndHourWindowsAreHalfOpen ==
    /\ cal.op = "minutes" => HalfOpen(60)
    /\ cal.op = "hours" => HalfOpen(3600)

\* The target is the very end of the reference's minute: outside
\* win_minutes(0).
C22_Witness ==
    /\ cal.op = "minutes"
    /\ cal.window = << 0 >>
    /\ ~cal.res
    /\ SecondsAfterTrunc(60) = 60
    /\ time_obj = TimeObj(DateTime(2025, 1, 1, 0, 0, 0),
                          DateTime(2024, 12, 31, 23, 59, 30))

\* The calls made on the instance that go through the snapshot.
SnapshotReads ==
    { i \in 1..Len(tpath.reads) : tpath.reads[i].op \in { "stat", "timestamp" } }

\* Two reads show one snapshot: two stat() calls return the same, two
\* timestamps are equal, and a timestamp is the time of the stat result (0
\* when stat() raises).
OneSnapshot(a, b) ==
    IF a.op = b.op THEN a = b
    ELSE IF a.op = "stat"
    THEN b.st = (IF a.exc = "none" THEN a.st ELSE 0)
    ELSE a.st = (IF b.exc = "none" THEN b.st ELSE 0)

\* C23: whatever happens to the file between them, all stat() calls (with
\* follow_symlinks true) and all timestamps read on one TPath instance show
\* one and the same stat result, the one of the first call.
C23_StatSnapshotPerInstance ==
    \A i, j \in SnapshotReads : OneSnapshot(tpath.reads[i], tpath.reads[j])

\* C24: take(limit) without a key returns what an execution asked for limit
\* elements and no more yields, the first min(limit, total) matches, and
\* has listed and evaluated exactly what that execution lists and
\* evaluates (nothing when limit is 0).
C24_TakeWithoutKeyExitsEarly ==
    (last.op = "take" /\ last.key = "none") =>
       /\ last.exc = Pull(SafeIterGen(last.coe), q, last.n, <<>>).g.exc
       /\ last.out = Pull(SafeIterGen(last.coe), q, last.n, <<>>).out
       /\ last.evald = Pull(SafeIterGen(last.coe), q, last.n, <<>>).g.evald
       /\ last.listed = Pull(SafeIterGen(last.coe), q, last.n, <<>>).g.listed

\* What an execution like e yields on the single root, distinct off.
AloneOn(e, root) ==
    Pull(NewGen(TRUE, FALSE, FALSE),
         [ e.cfg EXCEPT !.start_paths = << root >> ], -1, <<>>).out

\* The outputs of the roots one after the other, in the order of the roots;
\* with distinct on, the paths already yielded taken out.
RootByRoot(e) ==
    IF e.g.don
    THEN FirstOccurrences(Concat([ i \in 1..Len(e.g.roots) |->
                                     AloneOn(e, e.g.roots[i]) ]))
    ELSE Concat([ i \in 1..Len(e.g.roots) |-> AloneOn(e, e.g.roots[i]) ])

\* The subdirectories found in a listed directory, in the order of the
\* listing.
Subdirectories(dir) ==
    SelectSeq([ i \in 1..Len(ScanNames(dir)) |-> EntryPath(dir, ScanNames(dir)[i]) ],
              LAMBDA entry : EntryIsDir(entry))

\* Of two subdirectories found in the same listing, everything yielded from
\* the later-listed one and its subtree comes before anything yielded from
\* the earlier-listed one; likewise for the directories listed.
LastListedFirst(e, seq) ==
    \A dir \in Range(e.g.listed) :
       \A a, b \in 1..Len(Subdirectories(dir)) :
          a < b =>
             \A i, j \in 1..Len(seq) :
                (/\ IsBelow(Subdirectories(dir)[a], seq[i])
                 /\ IsBelow(Subdirectories(dir)[b], seq[j])) => j < i

\* C25: an iterator yields the matches of its roots root by root in the
\* order the roots were given, and inside a root the subdirectory taken
\* next is the one found last: the whole subtree of a later-listed
\* subdirectory comes out before any file of an earlier-listed sibling.
C25_TraversalOrder ==
    \A s \in Started :
       /\ IsPrefix(execs[s].out, RootByRoot(execs[s]))
       /\ execs[s].g.phase = "done" => execs[s].out = RootByRoot(execs[s])
       /\ (execs[s].cfg.is_recursive /\ NoNestedRoots(execs[s].g.roots)) =>
             /\ LastListedFirst(execs[s], execs[s].out)
             /\ LastListedFirst(execs[s], execs[s].g.listed)

\* A recursive iterator over the roots n, x, d has ended: the file root x
\* came out first, then the files of d, those of d/u (listed after d/s)
\* before those of d/s.
C25_Witness ==
    \E s \in Started :
       /\ execs[s].g.phase = "done"
       /\ execs[s].g.roots = << <<"n">>, <<"x">>, <<"d">> >>
       /\ execs[s].out[1] = <<"x">>
       /\ \E i, j \in 1..Len(execs[s].out) :
             /\ i < j
             /\ execs[s].out[i] = <<"d", "u", "f">>
             /\ execs[s].out[j] = <<"d", "s", "c">>

\* How often x occurs in seq, and how many of the roots x is or is below.
Occurrences(seq, x) == Cardinality({ i \in 1..Len(seq) : seq[i] = x })

RootsOver(roots, x) ==
    Cardinality({ i \in 1..Len(roots) : roots[i] = x \/ IsBelow(roots[i], x) })

\* No symlink is listed and nothing below one is listed or evaluated, every
\* directory is listed at most once for each root it is or is below, and the
\* predicates are asked about every file at most once for each such root.
NoCycle(g) ==
    /\ \A p \in Range(g.listed) \cup Range(g.evald) :
          p \notin LinkPaths /\ \A l \in LinkPaths : ~IsBelow(l, p)
    /\ \A dir \in Range(g.listed) :
          Occurrences(g.listed, dir) <= RootsOver(g.roots, dir)
    /\ \A f \in Range(g.evald) :
          Occurrences(g.evald, f) <= RootsOver(g.roots, f)

\* What an iterator has done so far: directories listed, paths evaluated,
\* errors recorded, roots begun, and its end.
Progress(g) ==
    Len(g.listed) + Len(g.evald) + g.errors + g.ri
    + (IF g.phase \in { "done", "raised" } THEN 1 ELSE 0)

\* No traversal of the roots does more than this.
WorkBound(roots) ==
    Len(roots) * (2 * Cardinality(DirPaths \cup FilePaths \cup LinkPaths) + 1)
    + 1

\* A call of next() on the iterator in slot s.
PullOf(s) ==
    /\ execs[s].kind \in { "files", "iter" }
    /\ execs[s].g.phase \in { "new", "run" }
    /\ Pulled(s, Next1(execs[s].g, q), Advanced(execs[s], Next1(execs[s].g, q)))

\* C26: an iterator never descends into a symlinked directory and lists a
\* directory and evaluates a file at most once per root; every next() on it
\* adds to what it has done, which the finite tree bounds, so that after
\* finitely many calls it has ended (exhausted, or raising with
\* continue_on_exc False).
C26_TraversalTerminates ==
    /\ [](\A s \in Slots :
            /\ NoCycle(execs[s].g)
            /\ Progress(execs[s].g) <= WorkBound(execs[s].g.roots))
    /\ [][\A s \in Slots :
            PullOf(s) => Progress(execs'[s].g) > Progress(execs[s].g)]_vars

\* A recursive iterator over d, which holds the symlink d/l back to d, has
\* ended after listing d and the three directories below it.
C26_Witness ==
    \E s \in Slots :
       /\ execs[s].g.phase = "done"
       /\ execs[s].g.roots = << <<"d">> >>
       /\ execs[s].cfg.is_recursive
       /\ Range(execs[s].g.listed)
             = { <<"d">>, <<"d", "s">>, <<"d", "s", "t">>, <<"d", "u">> }
       /\ Len(execs[s].g.listed) = 4

\* What the iterator e yields when it alone is consumed, from the builder
\* as it was at its first element: the traversal without distinct, and with
\* distinct on the first occurrence of each path in it.
ConsumedAlone(e) ==
    IF e.g.don THEN FirstOccurrences(Undistinct(e)) ELSE Undistinct(e)

\* C27: of two iterators made from one builder and pulled in any
\* interleaving, each has yielded the start of what it yields when consumed
\* alone, and all of it once it is exhausted; with distinct on, each leaves
\* out only the paths it has itself yielded before.
C27_ExecutionsAreIndependent ==
    \A s \in Started :
       /\ IsPrefix(execs[s].out, ConsumedAlone(execs[s]))
       /\ execs[s].g.phase = "done" => execs[s].out = ConsumedAlone(execs[s])
       /\ execs[s].g.don => execs[s].g.seen = Range(execs[s].out)

\* Two iterators with distinct on are both under way on the same roots, one
\* two elements in, the other one.
C27_Witness ==
    /\ { "it", "jt" } \subseteq Started
    /\ execs["it"].g.phase = "run" /\ execs["jt"].g.phase = "run"
    /\ execs["it"].g.don /\ execs["jt"].g.don
    /\ execs["it"].g.roots = execs["jt"].g.roots
    /\ Len(execs["it"].out) = 2
    /\ Len(execs["jt"].out) = 1
    /\ execs["jt"].out[1] = execs["it"].out[1]

\* C28: whatever builder calls were made since its first element was
\* pulled, an iterator has yielded the start of what it yields, consumed
\* alone, from the builder as it was at its first element, and ends having
\* yielded all of that.
C28_ExecutionInProgressIsIsolated ==
    \A s \in Slots :
       (execs[s].kind \in { "files", "iter" } /\ execs[s].g.phase # "new") =>
          /\ IsPrefix(execs[s].out, ConsumedAlone(execs[s]))
          /\ execs[s].g.phase = "done" =>
                execs[s].out = ConsumedAlone(execs[s])


(***************************************************************************)
(* C29.  A rejected builder call changes nothing: whenever where() raises  *)
(* TypeError or from_() raises ValueError, the predicate list, the roots,  *)
(* the recursion flag and the distinct flag of the builder after the call  *)
(* are exactly what they were before it.                                   *)
(***************************************************************************)
Rejected == calls' = calls + 1 /\ bexc' \in { "TypeError", "ValueError" }

C29_RejectedBuilderCallChangesNothing ==
    [][Rejected =>
          /\ q'.query_func = q.query_func
          /\ q'.start_paths = q.start_paths
          /\ q'.is_recursive = q.is_recursive
          /\ q'.distinct = q.distinct]_vars


(***************************************************************************)
(* C30.  Single-unit windows partition time: for every granularity, every  *)
(* reference and every recognized week_start, the target satisfies the     *)
(* single-offset call window(n) for exactly one integer n, that n is 0     *)
(* when the target equals the reference, and a range call window(a, b) is  *)
(* true exactly when that n lies between min(a, b) and max(a, b).          *)
(***************************************************************************)
MonthsSinceZero(t) == t.year * 12 + t.month - 1

\* The number of whole units of the granularity from the reference's unit
\* to the target's unit, counted on the calendar alone.
UnitsAway ==
    CASE cal.op = "minutes" -> SecondsAfterTrunc(60) \div 60
      [] cal.op = "hours" -> SecondsAfterTrunc(3600) \div 3600
      [] cal.op = "days" ->
            ToOrdinal(time_obj.datetime) - ToOrdinal(time_obj.base_time)
      [] cal.op = "weeks" ->
            (ToOrdinal(time_obj.datetime)
             - WeekStartOrdinal(normalize_weekday(cal.week_start).day)) \div 7
      [] cal.op = "months" ->
            MonthsSinceZero(time_obj.datetime)
            - MonthsSinceZero(time_obj.base_time)
      [] cal.op = "quarters" ->
            (MonthsSinceZero(time_obj.datetime) \div 3)
            - (MonthsSinceZero(time_obj.base_time) \div 3)
      [] cal.op = "years" -> time_obj.datetime.year - time_obj.base_time.year

\* The offsets tried after a single-offset call: those of the calls, one
\* more on each side, and the target's own unit with its two neighbours.
OffsetsAround(n) == ((-MaxOffset - 1)..(MaxOffset + 1)) \cup ((n - 1)..(n + 1))

SingleUnit(n) == WindowCall(cal.op, time_obj, << n >>, cal.week_start).res

ExactlyOne(n) == \A m \in OffsetsAround(n) : SingleUnit(m) = (m = n)

C30_SingleUnitWindowsPartitionTime ==
    (cal.op # "none" /\ cal.exc = "none") =>
       /\ Len(cal.window) = 1 => ExactlyOne(UnitsAway)
       /\ time_obj.datetime = time_obj.base_time => UnitsAway = 0
       /\ cal.res = (MinOffset <= UnitsAway /\ UnitsAway <= MaxOffsetOf)

\* A single-offset weeks call names the week of a target that is not in the
\* reference's week.
C30_Witness ==
    /\ cal.op = "weeks"
    /\ cal.exc = "none"
    /\ Len(cal.window) = 1
    /\ cal.window[1] = UnitsAway
    /\ UnitsAway # 0
    /\ cal.res

\* The target is the reference itself, asked for its own quarter.
C30_WitnessSameInstant ==
    /\ cal.op = "quarters"
    /\ time_obj.datetime = time_obj.base_time
    /\ cal.window = << 0 >>
    /\ cal.res

====
